---- MODULE Spec2Model ----
(***************************************************************************)
(* OAuth token lifecycle of jots-media-tracker: the token store, the       *)
(* code/refresh exchanges, ensureValidToken and the start of               *)
(* fetchViewingInfo of the two API classes (SimklAPI, TraktAPI).           *)
(*                                                                         *)
(* Time is the millisecond clock read by Date.now().  An await of a        *)
(* network request is a suspension point: the request is issued in one     *)
(* step and answered in a later one, and the clock may advance between.    *)
(* One call is in flight per API instance at a time, and a behaviour       *)
(* drives the API instance of one service, the one selected as primary.    *)
(*                                                                         *)
(* The response normalizers of fetchViewingInfo (TraktAPI, SimklAPI and    *)
(* the all-items variant of SimklAPI) are operators on a history response; *)
(* NormSpec applies them to one response per behaviour.                    *)
(*                                                                         *)
(* PluginSpec is the plugin around the two API instances: the settings     *)
(* blob and its persisted copy, the instances the plugin builds from it    *)
(* (onload, saveSettings, getActiveAPI), the settings tab with its         *)
(* Authenticate / Re-authenticate buttons and the trackViewing command;    *)
(* a behaviour works in the settings section of one service.  FlowSpec is  *)
(* the authorization flows of both services with their modal and their     *)
(* listeners for the auth-code event.  LoopbackSpec is the older settings  *)
(* tab that receives the authorization code on a loopback HTTP listener.   *)
(***************************************************************************)
EXTENDS Integers, FiniteSets, Sequences, TLC

VARIABLES now, service, api, pc, call, norm, plugin, oauth

vars == <<now, service, api, pc, call, norm, plugin, oauth>>

Services == {"simkl", "trakt"}

\* ---------------------------------------------------------------- values
\* null / undefined of a number-typed field
Null == -1
\* the number NaN
NaN == -2
\* null / undefined of a string-typed field
NoToken == "null"

\* JavaScript truthiness of a string | null value
Truthy(t) == t # NoToken /\ t # ""
\* JavaScript truthiness of a number | null value (0, NaN, null are falsy)
TruthyNum(n) == n # Null /\ n # NaN /\ n # 0

MsPerSec == 1000
RefreshWindowMs == 300000

\* ---------------------------------------------------------------- bounds
Now0 == 1000000
MaxTicks == 2
TickMs == 1000
\* arguments of setTokens
SetAccessArgs == {"", "a1", "a2"}
SetRefreshArgs == {NoToken, "r1"}
SetExpiresInArgs == {Null, 0 - 5, 0, 3600}
\* fields of a token endpoint body
BodyAccessTokens == {NoToken, "a2"}
BodyRefreshTokens == {NoToken, "r2"}
ExpiresInVals == {Null, 0, 1, 300}
CreatedAtVals == {Null, 999}
Statuses == {0, 200, 201, 401}
\* entries of a history response, and its date range
MaxItems == 3
\* startDate and endDate of a fetch: a single instant, two ranges that end or
\* start one millisecond after it, a range over all entries, an inverted
\* range and an unparsable start
DateRanges == {<<"1970-01-02T10:00:00Z", "1970-01-02T10:00:00.000Z">>,
               <<"1970-01-02T10:00:00Z", "1970-01-02T10:00:00.001Z">>,
               <<"1970-01-02T10:00:00.001Z", "1970-01-03T10:00:00Z">>,
               <<"1970-01-02T10:00:00Z", "1970-01-03T10:00:00Z">>,
               <<"1970-01-03T10:00:00Z", "1970-01-02T10:00:00Z">>,
               <<"yesterday", "1970-01-03T10:00:00Z">>}
\* last_watched summaries: "S01E02", "Season 1", "xS10E3", "S1E"
Summaries == {<<"S", "0", "1", "E", "0", "2">>,
              <<"S", "e", "a", "s", "o", "n", " ", "1">>,
              <<"x", "S", "1", "0", "E", "3">>,
              <<"S", "1", "E">>}

\* ------------------------------------------------------- HTTP collaborators
\* status 0 stands for a request that never got a response
NoBody == [access_token |-> NoToken, refresh_token |-> NoToken,
           expires_in |-> Null, created_at |-> Null]
TokenBodies == [access_token : BodyAccessTokens,
                refresh_token : BodyRefreshTokens,
                expires_in : ExpiresInVals,
                created_at : CreatedAtVals]
\* answers of the token endpoint of service s; only Trakt sends created_at
TokenReplies(s) ==
    {[status |-> st, body |-> NoBody] : st \in {0, 401}}
    \cup {[status |-> st, body |-> b] : st \in {200, 201},
              b \in {x \in TokenBodies : s = "trakt" \/ x.created_at = Null}}

\* obsidian requestUrl: rejects without a response and on status >= 400
RequestUrlThrows(status) == status = 0 \/ status >= 400
\* window.fetch: rejects only without a response
FetchThrows(status) == status = 0
\* Response.ok
ResponseOk(status) == status >= 200 /\ status <= 299

\* ------------------------------------------------------------ token store
NoTokens == [accessToken |-> NoToken, refreshToken |-> NoToken, tokenExpiresAt |-> Null]

SetTokenDataThrows(data) == ~Truthy(data.access_token)

SimklExpiry(t, data, clock) ==
    IF TruthyNum(data.expires_in) THEN clock + data.expires_in * MsPerSec
    ELSE t.tokenExpiresAt

\* variant: created_at is not looked at
TraktExpiryFromNow(t, data, clock) == SimklExpiry(t, data, clock)

TraktExpiry(t, data, clock) ==
    IF TruthyNum(data.created_at)
    THEN IF data.expires_in = Null THEN NaN
         ELSE (data.created_at + data.expires_in) * MsPerSec
    ELSE SimklExpiry(t, data, clock)

\* variant: the stored refresh token is always overwritten
SetTokenDataOverwrite(s, t, data, clock) ==
    [accessToken |-> data.access_token,
     refreshToken |-> data.refresh_token,
     tokenExpiresAt |-> IF s = "trakt" THEN TraktExpiry(t, data, clock)
                        ELSE SimklExpiry(t, data, clock)]

SetTokenData(s, t, data, clock) ==
    [accessToken |-> data.access_token,
     refreshToken |-> IF Truthy(data.refresh_token) THEN data.refresh_token ELSE t.refreshToken,
     tokenExpiresAt |-> IF s = "trakt" THEN TraktExpiry(t, data, clock)
                        ELSE SimklExpiry(t, data, clock)]

\* variant: the sign of expiresIn is not checked
SetTokensExpiryUnchecked(t, expiresIn, clock) ==
    IF TruthyNum(expiresIn) THEN clock + expiresIn * MsPerSec
    ELSE t.tokenExpiresAt

SetTokensExpiry(t, expiresIn, clock) ==
    IF TruthyNum(expiresIn) /\ expiresIn > 0 THEN clock + expiresIn * MsPerSec
    ELSE t.tokenExpiresAt

\* variant: the stored refresh token is always overwritten
SetTokensValueOverwrite(t, accessToken, refreshToken, expiresIn, clock) ==
    [accessToken |-> accessToken,
     refreshToken |-> refreshToken,
     tokenExpiresAt |-> SetTokensExpiry(t, expiresIn, clock)]

SetTokensValue(t, accessToken, refreshToken, expiresIn, clock) ==
    [accessToken |-> accessToken,
     refreshToken |-> IF Truthy(refreshToken) THEN refreshToken ELSE t.refreshToken,
     tokenExpiresAt |-> SetTokensExpiry(t, expiresIn, clock)]

\* getTokens() of an instance whose fields are t
GetTokensOf(t) ==
    [accessToken |-> t.accessToken,
     refreshToken |-> t.refreshToken,
     expiresAt |-> t.tokenExpiresAt]

\* variant: the fields are written before the response is validated
StoredAfterReplyUnvalidated(s, t, reply, res, clock) ==
    IF res \in {"ok", "MalformedResponse"} THEN SetTokenData(s, t, reply.body, clock) ELSE t

\* the fields after a token request with outcome res: setTokenData is reached
\* only when the request has not thrown, and throws before it writes
StoredAfterReply(s, t, reply, res, clock) ==
    IF res = "ok" THEN SetTokenData(s, t, reply.body, clock) ELSE t

\* --------------------------------------------------------- call bookkeeping
\* call[s] describes the call last started on the API instance of s:
\*   op, args      the method and its arguments
\*   pre, nowAtCall the token fields and the clock when it was called
\*   reply         the token endpoint's answer, once received
\*   refreshResult how the refresh attempt of the call ended
\*   ev, result    how ensureValidToken and the whole call ended
\*   refreshReqs, historyReqs  HTTP requests issued by the call
NoReply == [status |-> Null, body |-> NoBody]

NoCall == [op |-> "none", args |-> <<>>, pre |-> NoTokens, nowAtCall |-> Null,
           reply |-> NoReply, result |-> "none", ev |-> "none",
           refreshResult |-> "none", refreshReqs |-> 0, historyReqs |-> 0]

NewCall(op, s) == [NoCall EXCEPT !.op = op, !.result = "pending", !.nowAtCall = now,
                                 !.pre = api[s]]

\* ------------------------------------------------------ history payloads
\* A movie, show or episode object of a history entry.  An absent object has
\* present = FALSE.  Trakt numbers an episode under the key "number", Simkl
\* under the key "episode".
NoObj == [present |-> FALSE, title |-> NoToken, runtime |-> Null,
          season |-> Null, number |-> Null, episode |-> Null]

Media(title, runtime) == [NoObj EXCEPT !.present = TRUE, !.title = title, !.runtime = runtime]

TraktEpisode(season, number, runtime) ==
    [NoObj EXCEPT !.present = TRUE, !.title = "Pilot", !.season = season,
                  !.number = number, !.runtime = runtime]

SimklEpisode(season, episode, runtime) ==
    [NoObj EXCEPT !.present = TRUE, !.title = "Pilot", !.season = season,
                  !.episode = episode, !.runtime = runtime]

\* An upstream history entry.  title and runtime are the entry's own fields,
\* read where the entry has no movie / show object; last_watched is the
\* summary string, kept as its sequence of characters.
NoEntry == [watched_at |-> NoToken, last_watched_at |-> NoToken, last_watched |-> <<>>,
            type |-> NoToken, movie |-> NoObj, show |-> NoObj, episode |-> NoObj,
            title |-> NoToken, runtime |-> Null]

\* the JSON body of a history response: an array, an object with the
\* buckets movies and shows, or null
ArrayPayload(items) == [shape |-> "array", items |-> items, movies |-> <<>>, shows |-> <<>>]
BucketPayload(movies, shows) == [shape |-> "object", items |-> <<>>, movies |-> movies, shows |-> shows]
NullPayload == [shape |-> "null", items |-> <<>>, movies |-> <<>>, shows |-> <<>>]

\* new Date(str).getTime() for the date strings of the model, in ms; every
\* other string, and undefined, gives NaN
DateTable ==
    [x \in {"1970-01-02T10:00:00Z", "1970-01-02T10:00:00.000Z",
            "1970-01-02T10:00:00.001Z", "1970-01-03T10:00:00Z"} |->
        CASE x = "1970-01-02T10:00:00Z" -> 122400000
          [] x = "1970-01-02T10:00:00.000Z" -> 122400000
          [] x = "1970-01-02T10:00:00.001Z" -> 122400001
          [] x = "1970-01-03T10:00:00Z" -> 208800000]

DateParse(str) == IF str \in DOMAIN DateTable THEN DateTable[str] ELSE NaN

MsPerMinute == 60000

\* n || 0
OrZero(n) == IF TruthyNum(n) THEN n ELSE 0

\* variant: the runtime is taken for seconds
StartedAtSeconds(watchedAt, runtime) ==
    IF watchedAt = NaN THEN NaN ELSE watchedAt - runtime * MsPerSec

\* new Date(watchedAt.getTime() - runtime * 60 * 1000), as an instant in ms;
\* started_at holds the instant that toISOString() writes out
StartedAt(watchedAt, runtime) ==
    IF watchedAt = NaN THEN NaN ELSE watchedAt - runtime * MsPerMinute

\* ---- the regular expression /S(\d+)E(\d+)/ and parseInt(_, 10)
Digits == {"0", "1", "2", "3", "4", "5", "6", "7", "8", "9"}

DigitVal(c) ==
    CASE c = "0" -> 0 [] c = "1" -> 1 [] c = "2" -> 2 [] c = "3" -> 3 [] c = "4" -> 4
      [] c = "5" -> 5 [] c = "6" -> 6 [] c = "7" -> 7 [] c = "8" -> 8 [] c = "9" -> 9

\* length of the longest run of digits of str that starts at position i
RECURSIVE DigitRun(_, _)
DigitRun(str, i) ==
    IF i <= Len(str) /\ str[i] \in Digits THEN 1 + DigitRun(str, i + 1) ELSE 0

\* the decimal value of the n digits of str that start at position i
RECURSIVE ParseInt(_, _, _)
ParseInt(str, i, n) ==
    IF n = 0 THEN 0 ELSE ParseInt(str, i, n - 1) * 10 + DigitVal(str[i + n - 1])

\* the pattern matches str at position i
MatchAt(str, i) ==
    LET d1 == DigitRun(str, i + 1)
        e == i + 1 + d1 IN
    /\ str[i] = "S"
    /\ d1 >= 1
    /\ e <= Len(str)
    /\ str[e] = "E"
    /\ DigitRun(str, e + 1) >= 1

\* str.match(/S(\d+)E(\d+)/): the leftmost match and its two groups as numbers
SeasonEpisodeMatch(str) ==
    LET starts == {i \in 1..Len(str) : MatchAt(str, i)} IN
    IF starts = {} THEN [matched |-> FALSE, season |-> Null, episode |-> Null]
    ELSE LET i == CHOOSE x \in starts : \A y \in starts : x <= y
             d1 == DigitRun(str, i + 1)
             d2 == DigitRun(str, i + 2 + d1) IN
         [matched |-> TRUE, season |-> ParseInt(str, i + 1, d1),
          episode |-> ParseInt(str, i + 2 + d1, d2)]

\* ------------------------------------------------------ response normalizer
\* What the normalizer makes of one entry: an item, nothing (the entry is
\* dropped), or an exception.  src names the entry an item was built from.
NoItem == [src |-> [bucket |-> "none", index |-> 0], watched_at |-> NoToken,
           started_at |-> NaN, type |-> NoToken,
           movie |-> NoObj, show |-> NoObj, episode |-> NoObj]
Dropped == [kind |-> "drop", item |-> NoItem]
Thrown == [kind |-> "throw", item |-> NoItem]
Emitted(item) == [kind |-> "item", item |-> item]

\* the items of a sequence of per-entry outcomes, in their order
RECURSIVE Compact(_)
Compact(rs) ==
    IF rs = <<>> THEN <<>>
    ELSE IF Head(rs).kind = "item" THEN <<Head(rs).item>> \o Compact(Tail(rs))
    ELSE Compact(Tail(rs))

Failed(kind) == [result |-> kind, items |-> <<>>]
Returned(items) == [result |-> "ok", items |-> items]

\* ---- TraktAPI.fetchViewingInfo, after the response has arrived
\* the debug logging reads episode, show or movie of an entry by its type
TraktLogThrows(data) ==
    \/ data.shape # "array"
    \/ \E i \in 1..Len(data.items) :
          LET item == data.items[i] IN
          \/ item.type = "episode" /\ (~item.episode.present \/ ~item.show.present)
          \/ item.type = "movie" /\ ~item.movie.present

TraktItem(item, i) ==
    LET watchedAt == DateParse(item.watched_at)
        base == [NoItem EXCEPT !.src = [bucket |-> "items", index |-> i],
                               !.watched_at = item.watched_at] IN
    IF ~Truthy(item.watched_at) THEN Thrown
    ELSE IF item.type = "movie" /\ item.movie.present
    THEN LET startedAt == StartedAt(watchedAt, OrZero(item.movie.runtime)) IN
         IF startedAt = NaN THEN Thrown
         ELSE Emitted([base EXCEPT !.started_at = startedAt, !.type = "movie",
                                   !.movie = Media(item.movie.title, item.movie.runtime)])
    ELSE IF item.type = "episode" /\ item.show.present /\ item.episode.present
    THEN LET runtime == IF TruthyNum(item.episode.runtime) THEN item.episode.runtime
                        ELSE OrZero(item.show.runtime)
             startedAt == StartedAt(watchedAt, runtime) IN
         IF startedAt = NaN THEN Thrown
         ELSE Emitted([base EXCEPT !.started_at = startedAt, !.type = "show",
                                   !.show = Media(item.show.title, item.show.runtime),
                                   !.episode = [NoObj EXCEPT !.present = TRUE,
                                                  !.title = item.episode.title,
                                                  !.season = item.episode.season,
                                                  !.episode = item.episode.number,
                                                  !.runtime = item.episode.runtime]])
    ELSE Thrown

\* variant: the items are returned oldest entry first
TraktNormalizeReversed(data) ==
    IF TraktLogThrows(data) THEN Failed("TypeError")
    ELSE LET rs == [i \in 1..Len(data.items) |-> TraktItem(data.items[i], i)] IN
         IF \E i \in 1..Len(rs) : rs[i].kind = "throw" THEN Failed("MalformedPayload")
         ELSE Returned([i \in 1..Len(rs) |-> Compact(rs)[Len(rs) + 1 - i]])

TraktNormalize(data) ==
    IF TraktLogThrows(data) THEN Failed("TypeError")
    ELSE LET rs == [i \in 1..Len(data.items) |-> TraktItem(data.items[i], i)] IN
         IF \E i \in 1..Len(rs) : rs[i].kind = "throw" THEN Failed("MalformedPayload")
         ELSE Returned(Compact(rs))

\* ---- SimklAPI.fetchViewingInfo of src/api/simkl.ts, after the response
SimklItem(item, i) ==
    LET runtime == IF item.movie.present /\ TruthyNum(item.movie.runtime) THEN item.movie.runtime
                   ELSE IF item.episode.present /\ TruthyNum(item.episode.runtime)
                   THEN item.episode.runtime
                   ELSE IF item.show.present /\ TruthyNum(item.show.runtime)
                   THEN item.show.runtime
                   ELSE 0
        startedAt == StartedAt(DateParse(item.watched_at), runtime)
        hasShow == ~item.movie.present /\ item.show.present IN
    IF ~Truthy(item.watched_at) THEN Thrown
    ELSE IF startedAt = NaN THEN Thrown
    ELSE Emitted([NoItem EXCEPT
             !.src = [bucket |-> "items", index |-> i],
             !.watched_at = item.watched_at,
             !.started_at = startedAt,
             !.type = IF item.movie.present THEN "movie" ELSE "show",
             !.movie = IF item.movie.present THEN Media(item.movie.title, item.movie.runtime)
                       ELSE NoObj,
             !.show = IF hasShow THEN Media(item.show.title, item.show.runtime) ELSE NoObj,
             !.episode = IF hasShow /\ item.episode.present
                         THEN [NoObj EXCEPT !.present = TRUE,
                                            !.title = item.episode.title,
                                            !.season = item.episode.season,
                                            !.episode = item.episode.number,
                                            !.runtime = item.episode.runtime]
                         ELSE NoObj])

SimklNormalize(data) ==
    IF data.shape = "null" THEN Failed("MalformedPayload")
    ELSE LET rs == [i \in 1..Len(data.items) |-> SimklItem(data.items[i], i)] IN
         IF \E i \in 1..Len(rs) : rs[i].kind = "throw" THEN Failed("MalformedPayload")
         ELSE Returned(Compact(rs))

\* ---- SimklAPI.fetchViewingInfo of the all-items variant (movies / shows)
\* item.watched_at || item.last_watched_at
WatchedAtOf(item) ==
    IF Truthy(item.watched_at) THEN item.watched_at ELSE item.last_watched_at

\* variant: the end of the range is excluded
InRangeExclusive(item, startTimestamp, endTimestamp) ==
    LET timestamp == DateParse(WatchedAtOf(item)) IN
    timestamp # NaN /\ timestamp >= startTimestamp /\ timestamp < endTimestamp

\* the filter in front of both buckets
InRange(item, startTimestamp, endTimestamp) ==
    LET timestamp == DateParse(WatchedAtOf(item)) IN
    timestamp # NaN /\ timestamp >= startTimestamp /\ timestamp <= endTimestamp

\* item.movie || item, item.show || item
MediaDataOf(obj, item) == IF obj.present THEN obj ELSE Media(item.title, item.runtime)

BucketMovie(item, i, startTimestamp, endTimestamp) ==
    LET watched_at == WatchedAtOf(item)
        movieData == MediaDataOf(item.movie, item) IN
    IF ~InRange(item, startTimestamp, endTimestamp) THEN Dropped
    ELSE IF ~Truthy(watched_at) THEN Dropped
    ELSE IF ~Truthy(movieData.title) THEN Dropped
    ELSE Emitted([NoItem EXCEPT
             !.src = [bucket |-> "movies", index |-> i],
             !.watched_at = watched_at,
             !.started_at = StartedAt(DateParse(watched_at), OrZero(movieData.runtime)),
             !.type = "movie",
             !.movie = Media(movieData.title, movieData.runtime)])

\* variant: any summary stands in for the episode object
FinalEpisodeDataLenient(item, showData) ==
    LET match == SeasonEpisodeMatch(item.last_watched) IN
    IF item.episode.present THEN item.episode
    ELSE IF item.last_watched # <<>>
    THEN [NoObj EXCEPT !.present = TRUE, !.title = "", !.season = match.season,
                       !.episode = match.episode, !.runtime = showData.runtime]
    ELSE NoObj

\* the episode object of a show entry, or the one parsed from last_watched
FinalEpisodeData(item, showData) ==
    LET match == SeasonEpisodeMatch(item.last_watched) IN
    IF item.episode.present THEN item.episode
    ELSE IF item.last_watched # <<>> /\ match.matched
    THEN [NoObj EXCEPT !.present = TRUE, !.title = "", !.season = match.season,
                       !.episode = match.episode, !.runtime = showData.runtime]
    ELSE NoObj

BucketShow(item, i, startTimestamp, endTimestamp) ==
    LET watched_at == WatchedAtOf(item)
        showData == MediaDataOf(item.show, item)
        finalEpisodeData == FinalEpisodeData(item, showData)
        runtime == IF TruthyNum(finalEpisodeData.runtime) THEN finalEpisodeData.runtime
                   ELSE OrZero(showData.runtime) IN
    IF ~InRange(item, startTimestamp, endTimestamp) THEN Dropped
    ELSE IF ~Truthy(watched_at) THEN Dropped
    ELSE IF ~Truthy(showData.title) THEN Dropped
    ELSE IF ~finalEpisodeData.present THEN Dropped
    ELSE Emitted([NoItem EXCEPT
             !.src = [bucket |-> "shows", index |-> i],
             !.watched_at = watched_at,
             !.started_at = StartedAt(DateParse(watched_at), runtime),
             !.type = "show",
             !.show = Media(showData.title, showData.runtime),
             !.episode = [NoObj EXCEPT !.present = TRUE,
                            !.title = IF Truthy(finalEpisodeData.title)
                                      THEN finalEpisodeData.title ELSE "",
                            !.season = finalEpisodeData.season,
                            !.episode = finalEpisodeData.episode,
                            !.runtime = finalEpisodeData.runtime]])

SimklBucketNormalize(data, startTimestamp, endTimestamp) ==
    IF data.shape = "null" THEN Failed("TypeError")
    ELSE Returned(
           Compact([i \in 1..Len(data.movies) |->
                       BucketMovie(data.movies[i], i, startTimestamp, endTimestamp)])
           \o Compact([i \in 1..Len(data.shows) |->
                       BucketShow(data.shows[i], i, startTimestamp, endTimestamp)]))

\* a variant that also refuses a range of one instant
DateRangeErrorStrict(startTimestamp, endTimestamp) ==
    IF startTimestamp = NaN \/ endTimestamp = NaN THEN "InvalidDate"
    ELSE IF startTimestamp >= endTimestamp THEN "InvalidRange"
    ELSE "none"

\* the validation of the two dates at the head of the try block
DateRangeError(startTimestamp, endTimestamp) ==
    IF startTimestamp = NaN \/ endTimestamp = NaN THEN "InvalidDate"
    ELSE IF startTimestamp > endTimestamp THEN "InvalidRange"
    ELSE "none"

\* the history requests the fetch issues: requestUrl is reached only when the
\* validation has not thrown
SimklBucketRequests(startDate, endDate) ==
    IF DateRangeError(DateParse(startDate), DateParse(endDate)) = "none" THEN 1 ELSE 0

\* the whole body of the try block: the dates are validated first
SimklBucketFetch(startDate, endDate, data) ==
    LET startTimestamp == DateParse(startDate)
        endTimestamp == DateParse(endDate)
        error == DateRangeError(startTimestamp, endTimestamp) IN
    IF error # "none" THEN Failed(error)
    ELSE SimklBucketNormalize(data, startTimestamp, endTimestamp)

\* ---- the responses the history endpoints are taken to send
\* the episode object as service s sends it
Episode(s, season, number, runtime) ==
    IF s = "trakt" THEN TraktEpisode(season, number, runtime)
    ELSE SimklEpisode(season, number, runtime)

\* entries of an array response of service s
FlatEntries(s) ==
    LET movie == [NoEntry EXCEPT !.type = "movie", !.watched_at = "1970-01-02T10:00:00Z",
                                 !.movie = Media("Heat", 120)]
        episode == [NoEntry EXCEPT !.type = "episode", !.watched_at = "1970-01-02T10:00:00.001Z",
                                   !.show = Media("Lost", 30), !.episode = Episode(s, 1, 2, 45)] IN
    {movie,
     [movie EXCEPT !.movie = Media(NoToken, 120)],
     [movie EXCEPT !.watched_at = NoToken],
     [movie EXCEPT !.watched_at = "yesterday"],
     [movie EXCEPT !.watched_at = "1970-01-03T10:00:00Z", !.movie = Media("Alien", Null)],
     [movie EXCEPT !.movie = NoObj],
     episode,
     [episode EXCEPT !.episode = Episode(s, 1, 3, Null)],
     [episode EXCEPT !.show = Media("Dark", Null), !.episode = Episode(s, 2, 1, 0)],
     [episode EXCEPT !.watched_at = NoToken],
     [episode EXCEPT !.episode = NoObj],
     [episode EXCEPT !.show = NoObj],
     [NoEntry EXCEPT !.type = "person", !.watched_at = "1970-01-02T10:00:00Z"]}

TraktEntries == FlatEntries("trakt")
SimklEntries == FlatEntries("simkl")

\* entries of the movies bucket
BucketMovies ==
    LET movie == [NoEntry EXCEPT !.watched_at = "1970-01-02T10:00:00Z",
                                 !.movie = Media("Heat", 120)] IN
    {movie,
     [movie EXCEPT !.watched_at = "1970-01-03T10:00:00Z", !.movie = Media("Alien", Null)],
     [NoEntry EXCEPT !.last_watched_at = "1970-01-02T10:00:00.001Z", !.title = "Up",
                     !.runtime = 90],
     [movie EXCEPT !.movie = Media(NoToken, 120)],
     [movie EXCEPT !.watched_at = NoToken],
     [movie EXCEPT !.watched_at = "yesterday"]}

\* entries of the shows bucket
BucketShows ==
    LET show == [NoEntry EXCEPT !.watched_at = "1970-01-02T10:00:00.000Z",
                                !.show = Media("Lost", 30)] IN
    {[show EXCEPT !.episode = SimklEpisode(1, 2, 45)],
     [show EXCEPT !.watched_at = "1970-01-03T10:00:00Z", !.show = Media("Dark", Null),
                  !.episode = SimklEpisode(2, 1, Null)],
     [show EXCEPT !.episode = SimklEpisode(1, 2, 45), !.show = Media(NoToken, 30)],
     [show EXCEPT !.episode = SimklEpisode(1, 2, 45), !.watched_at = NoToken],
     show}
    \cup {[show EXCEPT !.last_watched = x] : x \in Summaries}
    \cup {[NoEntry EXCEPT !.last_watched_at = "1970-01-02T10:00:00.001Z", !.title = "Dark",
                          !.runtime = 30, !.last_watched = <<"S", "0", "1", "E", "0", "2">>]}

\* responses that are not of the shape the service documents
OddFlatPayloads == {NullPayload, BucketPayload(<<>>, <<>>)}
OddBucketPayloads == {NullPayload, ArrayPayload(<<>>)}

\* the responses tried against a whole fetch call: null, one well-formed
\* movie, one movie without watched_at
ReplyPayloads(entries) ==
    {NullPayload}
    \cup {ArrayPayload(<<e>>) : e \in {x \in entries : /\ x.type = "movie"
                                                       /\ x.movie.present
                                                       /\ x.movie.title = "Heat"
                                                       /\ x.watched_at # "yesterday"}}

\* norm records one run of a normalizer on a response: which one, the date
\* range and the response it was given, the history requests issued, and
\* what it returned
NoNorm == [variant |-> "none", startDate |-> NoToken, endDate |-> NoToken,
           data |-> NullPayload, requests |-> 0, out |-> Failed("none")]

\* ----------------------------------------------------------- plugin state
\* authorization flows started per behaviour
MaxFlows == 2
\* authorization codes the services hand out
Codes == {"c1"}

\* one service's part of the settings blob; clientId stands for the pair of
\* client id and client secret, which are edited by handlers of one shape
DefaultAPISettings ==
    [enabled |-> FALSE, clientId |-> "", accessToken |-> "", refreshToken |-> "",
     tokenExpiresAt |-> Null]

DefaultSettings ==
    [simkl |-> DefaultAPISettings, trakt |-> DefaultAPISettings, primaryService |-> NoToken]

\* bookkeeping of the last handler that ran: which one, for which service,
\* its outcome, and whether it refreshed the access token
NoOp == [op |-> "none", service |-> NoToken, result |-> "none", refreshed |-> FALSE]

\* plugin holds
\*   settings   the blob held by the Settings object
\*   saved      the blob last written by saveData
\*   built      whether this.simklAPI / this.traktAPI is defined (its fields
\*              are api[s])
\*   view       the button the settings tab rendered for each service at its
\*              last display()
\*   modal      the flow whose AuthCodeModal is open, 0 if none
\*   flows      the authorization flows started by the Authenticate button:
\*              service, whether its auth-code listener is registered, the
\*              code exchanges it has in flight, and bookkeeping: the codes
\*              it has sent to the token endpoint and whether a
\*              handleAuthCode of it has run to its end
\*   exchanged  how many exchange requests were sent for each code
\*   reauth     bookkeeping: Re-authenticate was requested for the service
\*              and no code exchange for it has succeeded since
\*   last       bookkeeping of the last handler
NoPlugin ==
    [settings |-> DefaultSettings, saved |-> DefaultSettings,
     built |-> [s \in Services |-> FALSE],
     view |-> [s \in Services |-> "off"],
     modal |-> 0, flows |-> <<>>,
     exchanged |-> [c \in Codes |-> 0],
     reauth |-> [s \in Services |-> FALSE],
     last |-> NoOp]

\* ---------------------------------------------------- loopback listener state
\* clicks on the Authenticate button of the older settings tab per behaviour
MaxClicks == 3

\* oauth holds
\*   servers        the OAuthServer objects created: whether the server listens
\*                  on port 8080, the click whose waitForCallback promise is in
\*                  resolveCallback (0 if none), and bookkeeping: whether it
\*                  ever listened
\*   current        this.oauthServer: an index into servers, 0 for undefined
\*   clicks         the onClick handlers started: the server each created, its
\*                  position, the result of its wait, and bookkeeping: the
\*                  server that delivered the result and how often its wait
\*                  was resolved
\*   authenticated  the tab was rendered with an access token in the settings
\*   unloaded       onunload has run
NoOauth == [servers |-> <<>>, current |-> 0, clicks |-> <<>>,
            authenticated |-> FALSE, unloaded |-> FALSE]

Init ==
    /\ now = Now0
    /\ service \in Services
    /\ api = [s \in Services |-> NoTokens]
    /\ pc = [s \in Services |-> "idle"]
    /\ call = [s \in Services |-> NoCall]
    /\ norm = NoNorm
    /\ plugin = NoPlugin
    /\ oauth = NoOauth

Tick ==
    /\ now + TickMs <= Now0 + MaxTicks * TickMs
    /\ now' = now + TickMs
    /\ UNCHANGED <<service, api, pc, call, norm, plugin, oauth>>

\* new SimklAPI(...) / new TraktAPI(...): all token fields start as null
Construct(s) ==
    /\ s = service
    /\ pc[s] = "idle"
    /\ api' = [api EXCEPT ![s] = NoTokens]
    /\ call' = [call EXCEPT ![s] = NoCall]
    /\ UNCHANGED <<now, service, pc, norm, plugin, oauth>>

SetTokens(s, accessToken, refreshToken, expiresIn) ==
    /\ s = service
    /\ pc[s] = "idle"
    /\ IF ~Truthy(accessToken)
       THEN /\ call' = [call EXCEPT ![s] = [NewCall("setTokens", s) EXCEPT
                            !.args = <<accessToken, refreshToken, expiresIn>>,
                            !.result = "InvalidCredentials"]]
            /\ UNCHANGED api
       ELSE /\ api' = [api EXCEPT ![s] = SetTokensValue(api[s], accessToken, refreshToken, expiresIn, now)]
            /\ call' = [call EXCEPT ![s] = [NewCall("setTokens", s) EXCEPT
                            !.args = <<accessToken, refreshToken, expiresIn>>,
                            !.result = "ok"]]
    /\ UNCHANGED <<now, service, pc, norm, plugin, oauth>>

\* ------------------------------------------------------------ code exchange
ExchangeCodeForToken(s) ==
    /\ s = service
    /\ pc[s] = "idle"
    /\ pc' = [pc EXCEPT ![s] = "exchange"]
    /\ call' = [call EXCEPT ![s] = NewCall("exchange", s)]
    /\ UNCHANGED <<now, service, api, norm, plugin, oauth>>

\* outcome of the code after the token endpoint answered an exchange
SimklExchangeResult(reply) ==
    IF RequestUrlThrows(reply.status) THEN IF reply.status = 0 THEN "NetworkError" ELSE "ExchangeFailed"
    ELSE IF reply.status # 200 THEN "ExchangeFailed"
    ELSE IF SetTokenDataThrows(reply.body) THEN "MalformedResponse"
    ELSE "ok"

TraktExchangeResult(reply) ==
    IF RequestUrlThrows(reply.status) THEN IF reply.status = 0 THEN "NetworkError" ELSE "ExchangeFailed"
    ELSE IF SetTokenDataThrows(reply.body) THEN "MalformedResponse"
    ELSE "ok"

ExchangeResult(s, reply) ==
    IF s = "trakt" THEN TraktExchangeResult(reply) ELSE SimklExchangeResult(reply)

ExchangeReply(s, reply) ==
    /\ pc[s] = "exchange"
    /\ LET res == ExchangeResult(s, reply) IN
       /\ api' = [api EXCEPT ![s] = StoredAfterReply(s, api[s], reply, res, now)]
       /\ call' = [call EXCEPT ![s].reply = reply, ![s].result = res]
    /\ pc' = [pc EXCEPT ![s] = "idle"]
    /\ UNCHANGED <<now, service, norm, plugin, oauth>>

\* ------------------------------------------------------------------ refresh
SimklRefreshResult(reply) ==
    IF FetchThrows(reply.status) THEN "NetworkError"
    ELSE IF ~ResponseOk(reply.status) THEN "ExchangeFailed"
    ELSE IF SetTokenDataThrows(reply.body) THEN "MalformedResponse"
    ELSE "ok"

TraktRefreshResult(reply) ==
    IF RequestUrlThrows(reply.status) THEN IF reply.status = 0 THEN "NetworkError" ELSE "ExchangeFailed"
    ELSE IF SetTokenDataThrows(reply.body) THEN "MalformedResponse"
    ELSE "ok"

RefreshResult(s, reply) ==
    IF s = "trakt" THEN TraktRefreshResult(reply) ELSE SimklRefreshResult(reply)

\* variant: the refresh token is not looked at
HasRefreshTokenAlways(t) == TRUE

HasRefreshToken(t) == Truthy(t.refreshToken)

\* refreshAccessToken() called directly
RefreshAccessToken(s) ==
    /\ s = service
    /\ pc[s] = "idle"
    /\ IF ~HasRefreshToken(api[s])
       THEN /\ call' = [call EXCEPT ![s] = [NewCall("refresh", s) EXCEPT
                            !.result = "NoRefreshToken", !.refreshResult = "NoRefreshToken"]]
            /\ UNCHANGED pc
       ELSE /\ call' = [call EXCEPT ![s] = [NewCall("refresh", s) EXCEPT !.refreshReqs = 1]]
            /\ pc' = [pc EXCEPT ![s] = "refresh"]
    /\ UNCHANGED <<now, service, api, norm, plugin, oauth>>

\* ------------------------------------------------- ensureValidToken / fetch
\* variant: a token counts as expired at the instant of its expiry
ExpiredInclusive(t, clock) == clock >= t.tokenExpiresAt

Expired(t, clock) == clock > t.tokenExpiresAt

\* variant: a token with exactly five minutes left is refreshed
NeedsRefreshInclusive(t, clock) ==
    TruthyNum(t.tokenExpiresAt) /\ t.tokenExpiresAt - clock <= RefreshWindowMs

\* variant: the window is tested although no expiry is recorded
NeedsRefreshUnguarded(t, clock) ==
    t.tokenExpiresAt - clock < RefreshWindowMs

NeedsRefresh(t, clock) ==
    TruthyNum(t.tokenExpiresAt) /\ t.tokenExpiresAt - clock < RefreshWindowMs

\* variant: the access token is not looked at
IsAuthenticatedAlways(t) == TRUE

IsAuthenticated(t) == Truthy(t.accessToken)

\* variant: a failed refresh is always tolerated
AfterFailedRefreshSoft(t, clock) == "ok"

\* what ensureValidToken does after a refresh attempt failed
AfterFailedRefresh(t, clock) ==
    IF Expired(t, clock) THEN "AuthenticationExpired" ELSE "ok"

\* variant: the history request is issued without ensureValidToken
FetchViewingInfoUnguarded(s) ==
    /\ s = service
    /\ pc[s] = "idle"
    /\ call' = [call EXCEPT ![s] = [NewCall("fetch", s) EXCEPT !.historyReqs = 1]]
    /\ pc' = [pc EXCEPT ![s] = "history"]
    /\ UNCHANGED <<now, service, api, norm, plugin, oauth>>

\* fetchViewingInfo up to its first await on the network
FetchViewingInfo(s) ==
    /\ s = service
    /\ pc[s] = "idle"
    /\ LET c == NewCall("fetch", s) IN
       IF ~IsAuthenticated(api[s])
       THEN /\ call' = [call EXCEPT ![s] = [c EXCEPT !.ev = "NotAuthenticated", !.result = "NotAuthenticated"]]
            /\ UNCHANGED pc
       ELSE IF ~NeedsRefresh(api[s], now)
       THEN /\ call' = [call EXCEPT ![s] = [c EXCEPT !.ev = "ok", !.historyReqs = 1]]
            /\ pc' = [pc EXCEPT ![s] = "history"]
       ELSE IF ~HasRefreshToken(api[s])
       THEN LET ev == AfterFailedRefresh(api[s], now) IN
            IF ev = "ok"
            THEN /\ call' = [call EXCEPT ![s] = [c EXCEPT !.refreshResult = "NoRefreshToken",
                                                 !.ev = "ok", !.historyReqs = 1]]
                 /\ pc' = [pc EXCEPT ![s] = "history"]
            ELSE /\ call' = [call EXCEPT ![s] = [c EXCEPT !.refreshResult = "NoRefreshToken",
                                                 !.ev = ev, !.result = ev]]
                 /\ UNCHANGED pc
       ELSE /\ call' = [call EXCEPT ![s] = [c EXCEPT !.refreshReqs = 1]]
            /\ pc' = [pc EXCEPT ![s] = "refresh"]
    /\ UNCHANGED <<now, service, api, norm, plugin, oauth>>

\* the token endpoint answered a refresh request
RefreshReply(s, reply) ==
    /\ pc[s] = "refresh"
    /\ LET res == RefreshResult(s, reply)
           t == StoredAfterReply(s, api[s], reply, res, now) IN
       /\ api' = [api EXCEPT ![s] = t]
       /\ IF call[s].op = "refresh"
          THEN /\ call' = [call EXCEPT ![s].reply = reply, ![s].refreshResult = res,
                                       ![s].result = res]
               /\ pc' = [pc EXCEPT ![s] = "idle"]
          ELSE LET ev == IF res = "ok" THEN "ok" ELSE AfterFailedRefresh(t, now) IN
               IF ev = "ok"
               THEN /\ call' = [call EXCEPT ![s].reply = reply, ![s].refreshResult = res,
                                            ![s].ev = "ok", ![s].historyReqs = @ + 1]
                    /\ pc' = [pc EXCEPT ![s] = "history"]
               ELSE /\ call' = [call EXCEPT ![s].reply = reply, ![s].refreshResult = res,
                                            ![s].ev = ev, ![s].result = ev]
                    /\ pc' = [pc EXCEPT ![s] = "idle"]
    /\ UNCHANGED <<now, service, norm, plugin, oauth>>

SimklHistoryResult(status, data) ==
    IF FetchThrows(status) THEN "NetworkError"
    ELSE IF ~ResponseOk(status) THEN "UpstreamError"
    ELSE SimklNormalize(data).result

TraktHistoryResult(status, data) ==
    IF RequestUrlThrows(status) THEN IF status = 0 THEN "NetworkError" ELSE "UpstreamError"
    ELSE IF status # 200 THEN "UpstreamError"
    ELSE TraktNormalize(data).result

\* variant: a failed history request is sent once more
HistoryReplyRetry(s, status, data) ==
    /\ pc[s] = "history"
    /\ LET res == IF s = "trakt" THEN TraktHistoryResult(status, data)
                  ELSE SimklHistoryResult(status, data) IN
       IF res \in {"NetworkError", "UpstreamError"} /\ call[s].historyReqs < 2
       THEN /\ call' = [call EXCEPT ![s].historyReqs = @ + 1]
            /\ UNCHANGED pc
       ELSE /\ call' = [call EXCEPT ![s].result = res]
            /\ pc' = [pc EXCEPT ![s] = "idle"]
    /\ UNCHANGED <<now, service, api, norm, plugin, oauth>>

\* the history endpoint answered; the response is normalized and returned
HistoryReply(s, status, data) ==
    /\ pc[s] = "history"
    /\ call' = [call EXCEPT ![s].result = IF s = "trakt" THEN TraktHistoryResult(status, data)
                                           ELSE SimklHistoryResult(status, data)]
    /\ pc' = [pc EXCEPT ![s] = "idle"]
    /\ UNCHANGED <<now, service, api, norm, plugin, oauth>>

Next ==
    \/ Tick
    \/ \E s \in Services : Construct(s)
    \/ \E s \in Services, a \in SetAccessArgs, r \in SetRefreshArgs, e \in SetExpiresInArgs :
          SetTokens(s, a, r, e)
    \/ \E s \in Services : ExchangeCodeForToken(s)
    \/ \E s \in Services : \E reply \in TokenReplies(s) : ExchangeReply(s, reply)
    \/ \E s \in Services : RefreshAccessToken(s)
    \/ \E s \in Services : FetchViewingInfo(s)
    \/ \E s \in Services : \E reply \in TokenReplies(s) : RefreshReply(s, reply)
    \/ \E s \in Services, status \in Statuses :
          \E data \in ReplyPayloads(IF s = "trakt" THEN TraktEntries ELSE SimklEntries) :
              HistoryReply(s, status, data)

Spec == Init /\ [][Next]_vars

\* ---- the normalizers on their own: one response is normalized per behaviour
NormalizeTrakt(data) ==
    /\ norm = NoNorm
    /\ norm' = [NoNorm EXCEPT !.variant = "trakt", !.data = data,
                             !.requests = 1, !.out = TraktNormalize(data)]
    /\ UNCHANGED <<now, service, api, pc, call, plugin, oauth>>

NormalizeSimkl(data) ==
    /\ norm = NoNorm
    /\ norm' = [NoNorm EXCEPT !.variant = "simkl", !.data = data,
                             !.requests = 1, !.out = SimklNormalize(data)]
    /\ UNCHANGED <<now, service, api, pc, call, plugin, oauth>>

NormalizeSimklBucket(startDate, endDate, data) ==
    /\ norm = NoNorm
    /\ norm' = [variant |-> "simklBucket", startDate |-> startDate, endDate |-> endDate,
                data |-> data, requests |-> SimklBucketRequests(startDate, endDate),
                out |-> SimklBucketFetch(startDate, endDate, data)]
    /\ UNCHANGED <<now, service, api, pc, call, plugin, oauth>>

\* A response holds at most MaxItems entries.  The inputs are enumerated only
\* while no response has been normalized yet.
NormNext ==
    \/ norm = NoNorm /\ \E k \in 0..MaxItems : \E items \in [1..k -> TraktEntries] :
                            NormalizeTrakt(ArrayPayload(items))
    \/ norm = NoNorm /\ \E data \in OddFlatPayloads : NormalizeTrakt(data)
    \/ norm = NoNorm /\ \E k \in 0..MaxItems : \E items \in [1..k -> SimklEntries] :
                            NormalizeSimkl(ArrayPayload(items))
    \/ norm = NoNorm /\ \E data \in OddFlatPayloads : NormalizeSimkl(data)
    \/ norm = NoNorm /\ \E range \in DateRanges, k \in 0..MaxItems :
                            \E movies \in [1..k -> BucketMovies] :
                                \E j \in 0..(MaxItems - k) :
                                    \E shows \in [1..j -> BucketShows] :
                                        NormalizeSimklBucket(range[1], range[2],
                                                             BucketPayload(movies, shows))
    \/ norm = NoNorm /\ \E range \in DateRanges, data \in OddBucketPayloads :
                            NormalizeSimklBucket(range[1], range[2], data)

NormInit == Init /\ service = "simkl"

NormSpec == NormInit /\ [][NormNext]_vars

\* ================================================================ the plugin
\* enabled && clientId && clientSecret
Configured(ss) == ss.enabled /\ Truthy(ss.clientId)

\* tokenExpiresAt ? Math.floor((tokenExpiresAt - Date.now()) / 1000) : null
\* (a result of -1 or -2 reads as Null or NaN here; setTokens ignores every
\* value that is not positive, so the outcome is the same)
RemainingSeconds(tokenExpiresAt, clock) ==
    IF TruthyNum(tokenExpiresAt) THEN (tokenExpiresAt - clock) \div MsPerSec ELSE Null

\* new SimklAPI(...) / new TraktAPI(...) followed by setTokens(...) if the
\* settings hold an access token
BuildAPI(ss, clock) ==
    IF Truthy(ss.accessToken)
    THEN SetTokensValue(NoTokens, ss.accessToken, ss.refreshToken,
                        RemainingSeconds(ss.tokenExpiresAt, clock), clock)
    ELSE NoTokens

\* the two instances after onload / saveSettings: an instance is replaced
\* only if its service is enabled and has its client credentials
RebuildAPIs(settings, instances, clock) ==
    [s \in Services |-> IF Configured(settings[s]) THEN BuildAPI(settings[s], clock)
                        ELSE instances[s]]

RebuildBuilt(settings, built) ==
    [s \in Services |-> built[s] \/ Configured(settings[s])]

\* what addAuthSection renders for a service
ViewOf(ss) ==
    IF ~ss.enabled THEN "off"
    ELSE IF ~Truthy(ss.clientId) THEN "fields"
    ELSE IF ~Truthy(ss.accessToken) THEN "authenticate"
    ELSE "reauth"

Display(settings) == [s \in Services |-> ViewOf(settings[s])]

\* the plugin record after setSettings(settings) and saveSettings(), and
\* after display() if the handler calls it; the write of saveData is taken
\* to complete before another handler runs
Saved(settings, redisplay) ==
    [plugin EXCEPT !.settings = settings, !.saved = settings,
                   !.built = RebuildBuilt(settings, plugin.built),
                   !.view = IF redisplay THEN Display(settings) ELSE @]

Op(op, s, result) ==
    [op |-> op, service |-> s, result |-> result, refreshed |-> FALSE]

\* answers of the token endpoints to the plugin's requests
GrantReplies ==
    {[status |-> 401, body |-> NoBody],
     [status |-> 200, body |-> [access_token |-> "a1", refresh_token |-> "r1",
                                expires_in |-> 1, created_at |-> Null]]}
RenewalReplies ==
    {[status |-> 401, body |-> NoBody],
     [status |-> 200, body |-> [access_token |-> "a2", refresh_token |-> "r2",
                                expires_in |-> 3600, created_at |-> Null]]}
HistoryStatuses == {200, 401}

\* what loadData returns for one service at start-up: the service is enabled
\* with its client credentials and holds no token, a token that expires
\* within two seconds, or a token that expired a second ago
LoadedServices ==
    {[enabled |-> TRUE, clientId |-> "id", accessToken |-> "", refreshToken |-> "",
      tokenExpiresAt |-> Null],
     [enabled |-> TRUE, clientId |-> "id", accessToken |-> "a0", refreshToken |-> "r0",
      tokenExpiresAt |-> Now0 + 1500],
     [enabled |-> TRUE, clientId |-> "id", accessToken |-> "a0", refreshToken |-> "r0",
      tokenExpiresAt |-> Now0 - 1000]}

\* onload: loadSettings, then the instances are built from the settings; the
\* settings tab is taken to be open
PluginInit ==
    /\ now = Now0
    /\ service \in Services
    /\ pc = [s \in Services |-> "idle"]
    /\ call = [s \in Services |-> NoCall]
    /\ norm = NoNorm
    /\ oauth = NoOauth
    /\ \E a \in LoadedServices, b \in LoadedServices, p \in Services :
          LET settings == [simkl |-> a, trakt |-> b, primaryService |-> p] IN
          /\ api = RebuildAPIs(settings, [s \in Services |-> NoTokens], Now0)
          /\ plugin = [NoPlugin EXCEPT !.settings = settings, !.saved = settings,
                                       !.built = RebuildBuilt(settings, NoPlugin.built),
                                       !.view = Display(settings)]

\* the Enable Service toggle
ToggleEnabled(s) ==
    /\ plugin.modal = 0
    /\ LET settings == [plugin.settings EXCEPT ![s].enabled = ~@] IN
       /\ plugin' = [Saved(settings, TRUE) EXCEPT
                        !.last = Op("toggleEnabled", s, "ok")]
       /\ api' = RebuildAPIs(settings, api, now)
    /\ UNCHANGED <<now, service, pc, call, norm, oauth>>

\* the Client ID text field (rendered while the service is enabled); the
\* handler does not render the tab again
EditClientId(s, value) ==
    /\ plugin.modal = 0
    /\ plugin.view[s] # "off"
    /\ plugin.settings[s].clientId # value
    /\ LET settings == [plugin.settings EXCEPT ![s].clientId = value] IN
       /\ plugin' = [Saved(settings, FALSE) EXCEPT
                        !.last = Op("editClientId", s, "ok")]
       /\ api' = RebuildAPIs(settings, api, now)
    /\ UNCHANGED <<now, service, pc, call, norm, oauth>>

\* the Primary Service dropdown
SetPrimaryService(value) ==
    /\ plugin.modal = 0
    /\ plugin.settings.primaryService # value
    /\ LET settings == [plugin.settings EXCEPT !.primaryService = value] IN
       /\ plugin' = [Saved(settings, FALSE) EXCEPT
                        !.last = Op("setPrimaryService", NoToken, "ok")]
       /\ api' = RebuildAPIs(settings, api, now)
    /\ UNCHANGED <<now, service, pc, call, norm, oauth>>

\* the Authenticate button: a new API instance, the modal, and a listener for
\* the auth-code event
ClickAuthenticate(s) ==
    /\ plugin.modal = 0
    /\ plugin.view[s] = "authenticate"
    /\ Len(plugin.flows) < MaxFlows
    /\ plugin' = [plugin EXCEPT
                     !.flows = Append(@, [service |-> s, listening |-> TRUE, pending |-> {},
                                           sent |-> {}, done |-> FALSE]),
                     !.modal = Len(plugin.flows) + 1,
                     !.last = Op("authenticate", s, "ok")]
    /\ UNCHANGED <<now, service, api, pc, call, norm, oauth>>

\* the user dismisses the modal
CloseModal ==
    /\ plugin.modal # 0
    /\ plugin' = [plugin EXCEPT !.modal = 0,
                                !.last = Op("closeModal", plugin.flows[plugin.modal].service, "ok")]
    /\ UNCHANGED <<now, service, api, pc, call, norm, oauth>>

\* Submit in the modal with a code typed in: handleAuthCode is started (it
\* sends the exchange request) and the modal closes
ModalSubmit(code) ==
    /\ plugin.modal # 0
    /\ LET f == plugin.modal IN
       plugin' = [plugin EXCEPT
                     !.flows[f].pending = @ \cup {[code |-> code, via |-> "modal"]},
                     !.flows[f].sent = @ \cup {code},
                     !.exchanged[code] = @ + 1,
                     !.modal = 0,
                     !.last = Op("modalSubmit", plugin.flows[f].service, "ok")]
    /\ UNCHANGED <<now, service, api, pc, call, norm, oauth>>

\* handleAuthCallback: either protocol handler dispatches the auth-code event
\* on window, and every registered listener starts handleAuthCode with the
\* code.  (A callback is taken to arrive when the exchanges started by the
\* previous event have been answered.)
AuthCallback(code) ==
    /\ \A f \in 1..Len(plugin.flows) : \A p \in plugin.flows[f].pending : p.via # "event"
    /\ LET listeners == {f \in 1..Len(plugin.flows) : plugin.flows[f].listening} IN
       plugin' = [plugin EXCEPT
                     !.flows = [f \in 1..Len(plugin.flows) |->
                                   IF f \in listeners
                                   THEN [plugin.flows[f] EXCEPT
                                            !.pending = @ \cup {[code |-> code, via |-> "event"]},
                                            !.sent = @ \cup {code}]
                                   ELSE plugin.flows[f]],
                     !.exchanged[code] = @ + Cardinality(listeners),
                     !.last = Op("authCallback", NoToken, "ok")]
    /\ UNCHANGED <<now, service, api, pc, call, norm, oauth>>

\* the settings after handleAuthCode has stored a token response
WithTokenResponse(settings, s, body, clock) ==
    [settings EXCEPT ![s].accessToken = body.access_token,
                     ![s].refreshToken = body.refresh_token,
                     ![s].tokenExpiresAt = IF TruthyNum(body.expires_in)
                                           THEN clock + body.expires_in * MsPerSec
                                           ELSE Null]

\* the token endpoint answers the exchange p of flow f: the rest of
\* handleAuthCode, and of the listener if the code came by the event
HandleAuthCode(f, p, reply) ==
    /\ f \in 1..Len(plugin.flows)
    /\ p \in plugin.flows[f].pending
    /\ LET s == plugin.flows[f].service
           res == ExchangeResult(s, reply)
           settings == IF res = "ok"
                       THEN WithTokenResponse(plugin.settings, s, reply.body, now)
                       ELSE plugin.settings
           after == IF res = "ok" THEN Saved(settings, TRUE) ELSE plugin IN
       /\ plugin' = [after EXCEPT
                        !.flows[f].pending = @ \ {p},
                        !.flows[f].done = TRUE,
                        !.reauth[s] = IF res = "ok" THEN FALSE ELSE @,
                        !.flows[f].listening = IF p.via = "event" THEN FALSE ELSE @,
                        !.modal = IF p.via = "event" /\ @ = f THEN 0 ELSE @,
                        !.last = Op("exchange", s, res)]
       /\ api' = IF res = "ok" THEN RebuildAPIs(settings, api, now) ELSE api
    /\ UNCHANGED <<now, service, pc, call, norm, oauth>>

\* variant: only the access token is cleared
ReauthenticatedAccessOnly(settings, s) ==
    [settings EXCEPT ![s].accessToken = ""]

\* the settings after the Re-authenticate handler has cleared the tokens of s
Reauthenticated(settings, s) ==
    [settings EXCEPT ![s].accessToken = "", ![s].refreshToken = "",
                     ![s].tokenExpiresAt = Null]

\* the Re-authenticate button
ClickReauthenticate(s) ==
    /\ plugin.modal = 0
    /\ plugin.view[s] = "reauth"
    /\ LET settings == Reauthenticated(plugin.settings, s) IN
       /\ plugin' = [Saved(settings, TRUE) EXCEPT
                        !.reauth[s] = TRUE,
                        !.last = Op("reauthenticate", s, "ok")]
       /\ api' = RebuildAPIs(settings, api, now)
    /\ UNCHANGED <<now, service, pc, call, norm, oauth>>

\* getActiveAPI: the error it throws, or "none"
ActiveAPIError(settings) ==
    IF settings.primaryService = NoToken THEN "NoPrimaryService"
    ELSE IF ~settings[settings.primaryService].enabled THEN "NotEnabled"
    ELSE IF ~Truthy(settings[settings.primaryService].clientId) THEN "NotConfigured"
    ELSE "none"

\* the history request of the fetch, answered with an empty history
EmptyHistoryResult(s, status) ==
    IF s = "trakt" THEN TraktHistoryResult(status, ArrayPayload(<<>>))
    ELSE SimklHistoryResult(status, ArrayPayload(<<>>))

\* the Track Viewing command: getActiveAPI, then fetchViewingInfo on the
\* instance of the primary service; reply is the answer to the refresh
\* request and status the answer to the history request, if they are sent
TrackViewing(reply, status) ==
    /\ LET error == ActiveAPIError(plugin.settings)
           s == plugin.settings.primaryService IN
       IF error # "none"
       THEN /\ plugin' = [plugin EXCEPT !.last = Op("fetch", s, error)]
            /\ UNCHANGED api
       ELSE LET t0 == IF plugin.built[s] THEN api[s] ELSE BuildAPI(plugin.settings[s], now)
                refresh == IsAuthenticated(t0) /\ NeedsRefresh(t0, now)
                res == IF ~refresh THEN "none"
                       ELSE IF ~HasRefreshToken(t0) THEN "NoRefreshToken"
                       ELSE RefreshResult(s, reply)
                t1 == IF refresh /\ HasRefreshToken(t0)
                      THEN StoredAfterReply(s, t0, reply, res, now) ELSE t0
                ev == IF ~IsAuthenticated(t0) THEN "NotAuthenticated"
                      ELSE IF res \in {"none", "ok"} THEN "ok"
                      ELSE AfterFailedRefresh(t1, now)
                result == IF ev = "ok" THEN EmptyHistoryResult(s, status) ELSE ev IN
            /\ api' = [api EXCEPT ![s] = t1]
            /\ plugin' = [plugin EXCEPT
                             !.built[s] = TRUE,
                             !.last = [Op("fetch", s, result) EXCEPT !.refreshed = (res = "ok")]]
    /\ UNCHANGED <<now, service, pc, call, norm, oauth>>

\* a behaviour works in the settings section of one service; its
\* authorization code is typed into the modal
PluginNext ==
    \/ Tick
    \/ ToggleEnabled(service)
    \/ \E value \in {"", "id"} : EditClientId(service, value)
    \/ \E value \in Services : SetPrimaryService(value)
    \/ ClickAuthenticate(service)
    \/ \E code \in Codes : ModalSubmit(code)
    \/ \E f \in 1..MaxFlows : \E p \in [code : Codes, via : {"modal"}] :
          \E reply \in GrantReplies : HandleAuthCode(f, p, reply)
    \/ ClickReauthenticate(service)
    \/ \E reply \in RenewalReplies, status \in HistoryStatuses : TrackViewing(reply, status)

PluginSpec == PluginInit /\ [][PluginNext]_vars

\* ---- the authorization flows of both services
\* both services are enabled with their client credentials and hold no token
FlowInit ==
    /\ now = Now0
    /\ service = "simkl"
    /\ pc = [s \in Services |-> "idle"]
    /\ call = [s \in Services |-> NoCall]
    /\ norm = NoNorm
    /\ oauth = NoOauth
    /\ LET settings == [simkl |-> [DefaultAPISettings EXCEPT !.enabled = TRUE, !.clientId = "id"],
                        trakt |-> [DefaultAPISettings EXCEPT !.enabled = TRUE, !.clientId = "id"],
                        primaryService |-> "simkl"] IN
       /\ api = RebuildAPIs(settings, [s \in Services |-> NoTokens], Now0)
       /\ plugin = [NoPlugin EXCEPT !.settings = settings, !.saved = settings,
                                    !.built = RebuildBuilt(settings, NoPlugin.built),
                                    !.view = Display(settings)]

FlowNext ==
    \/ \E s \in Services : ClickAuthenticate(s)
    \/ CloseModal
    \/ \E code \in Codes : ModalSubmit(code)
    \/ \E code \in Codes : AuthCallback(code)
    \/ \E f \in 1..MaxFlows : \E p \in [code : Codes, via : {"modal", "event"}] :
          \E reply \in GrantReplies : HandleAuthCode(f, p, reply)
    \/ \E s \in Services : ClickReauthenticate(s)

FlowSpec == FlowInit /\ [][FlowNext]_vars

\* ================================================= the loopback listener
\* the Authenticate button of the older settings tab: a new OAuthServer is
\* assigned to this.oauthServer and start() is called on it
LoopClick ==
    /\ ~oauth.unloaded /\ ~oauth.authenticated
    /\ Len(oauth.clicks) < MaxClicks
    /\ LET i == Len(oauth.servers) + 1 IN
       oauth' = [oauth EXCEPT
                    !.servers = Append(@, [listening |-> FALSE, waiter |-> 0, started |-> FALSE]),
                    !.current = i,
                    !.clicks = Append(@, [server |-> i, pc |-> "starting", result |-> "none",
                                          resolvedBy |-> 0, resolutions |-> 0])]
    /\ UNCHANGED <<now, service, api, pc, call, norm, plugin>>

\* start() of the server of click c settles: listen(8080) fails while a
\* server of the plugin listens, and may fail because another program holds
\* the port; otherwise the handler goes on to this.oauthServer.waitForCallback()
StartSettled(c, portFree) ==
    /\ c \in 1..Len(oauth.clicks)
    /\ oauth.clicks[c].pc = "starting"
    /\ LET i == oauth.clicks[c].server
           busy == \E j \in 1..Len(oauth.servers) : oauth.servers[j].listening IN
       IF busy \/ ~portFree
       THEN oauth' = [oauth EXCEPT !.clicks[c].pc = "failed"]
       ELSE IF oauth.current = 0
       THEN oauth' = [oauth EXCEPT !.servers[i].listening = TRUE,
                                   !.servers[i].started = TRUE,
                                   !.clicks[c].pc = "failed"]
       ELSE LET listening == [oauth.servers EXCEPT ![i].listening = TRUE, ![i].started = TRUE] IN
            oauth' = [oauth EXCEPT
                         !.servers = [listening EXCEPT ![oauth.current].waiter = c],
                         !.clicks[c].pc = "waiting"]
    /\ UNCHANGED <<now, service, api, pc, call, norm, plugin>>

\* a request reaches the listening server i, with a code, with an error, or
\* with neither: the promise in resolveCallback, if any, is resolved
HttpRequest(i, kind) ==
    /\ i \in 1..Len(oauth.servers)
    /\ oauth.servers[i].listening
    /\ oauth.servers[i].waiter # 0
    /\ LET c == oauth.servers[i].waiter IN
       oauth' = [oauth EXCEPT !.servers[i].waiter = 0,
                              !.clicks[c].pc = "resolved",
                              !.clicks[c].result = kind,
                              !.clicks[c].resolvedBy = i,
                              !.clicks[c].resolutions = @ + 1]
    /\ UNCHANGED <<now, service, api, pc, call, norm, plugin>>

\* the handler of click c goes on after its wait: this.oauthServer.stop()
StopCalled(c) ==
    /\ c \in 1..Len(oauth.clicks)
    /\ oauth.clicks[c].pc = "resolved"
    /\ IF oauth.current = 0
       THEN oauth' = [oauth EXCEPT !.clicks[c].pc = "failed"]
       ELSE oauth' = [oauth EXCEPT !.servers[oauth.current].listening = FALSE,
                                   !.clicks[c].pc = "stopping"]
    /\ UNCHANGED <<now, service, api, pc, call, norm, plugin>>

\* stop() has resolved: this.oauthServer = undefined, then the result is
\* looked at and the code is sent to the token endpoint
StopSettled(c) ==
    /\ c \in 1..Len(oauth.clicks)
    /\ oauth.clicks[c].pc = "stopping"
    /\ oauth' = [oauth EXCEPT !.current = 0,
                              !.clicks[c].pc = IF oauth.clicks[c].result = "code"
                                               THEN "exchanging" ELSE "failed"]
    /\ UNCHANGED <<now, service, api, pc, call, norm, plugin>>

\* the token endpoint answers: on success the tokens are saved and the tab is
\* rendered again, without the Authenticate button
LoopExchangeSettled(c, ok) ==
    /\ c \in 1..Len(oauth.clicks)
    /\ oauth.clicks[c].pc = "exchanging"
    /\ oauth' = [oauth EXCEPT !.clicks[c].pc = IF ok THEN "done" ELSE "failed",
                              !.authenticated = @ \/ ok]
    /\ UNCHANGED <<now, service, api, pc, call, norm, plugin>>

\* onunload of the tab
LoopUnload ==
    /\ ~oauth.unloaded
    /\ oauth' = [oauth EXCEPT
                    !.servers = IF oauth.current = 0 THEN @
                                ELSE [@ EXCEPT ![oauth.current].listening = FALSE],
                    !.current = 0,
                    !.unloaded = TRUE]
    /\ UNCHANGED <<now, service, api, pc, call, norm, plugin>>

LoopbackNext ==
    \/ LoopClick
    \/ \E c \in 1..MaxClicks, portFree \in BOOLEAN : StartSettled(c, portFree)
    \/ \E i \in 1..MaxClicks, kind \in {"code", "error", "other"} : HttpRequest(i, kind)
    \/ \E c \in 1..MaxClicks : StopCalled(c)
    \/ \E c \in 1..MaxClicks : StopSettled(c)
    \/ \E c \in 1..MaxClicks, ok \in BOOLEAN : LoopExchangeSettled(c, ok)
    \/ LoopUnload

LoopbackInit == Init /\ service = "simkl"

LoopbackSpec == LoopbackInit /\ [][LoopbackNext]_vars

\* ================================================================ claims
\* the expiry of the call's pre-state is a number
ExpiryRecorded(c) == c.pre.tokenExpiresAt # Null /\ c.pre.tokenExpiresAt # NaN

\* the refresh attempt of the call has failed
RefreshFailed(c) == c.refreshResult \notin {"none", "ok"}

\* the call was made with now < expiresAt < now + 5 minutes
CalledNearExpiry(c) ==
    /\ ExpiryRecorded(c)
    /\ c.nowAtCall < c.pre.tokenExpiresAt
    /\ c.pre.tokenExpiresAt < c.nowAtCall + 5 * 60 * 1000

\* the call was made with expiresAt < now
CalledExpired(c) ==
    /\ ExpiryRecorded(c)
    /\ c.pre.tokenExpiresAt > 0
    /\ c.pre.tokenExpiresAt < c.nowAtCall

\* this step is the one in which a failed refresh attempt of a fetch is handled
FailedRefreshHandled(s) ==
    /\ call'[s].op = "fetch"
    /\ RefreshFailed(call'[s])
    /\ \/ pc[s] = "refresh"
       \/ pc[s] = "idle" /\ call'[s] # call[s]

\* C1 as stated: every ensureValid call made with now < expiresAt < now + 5 min
\* whose refresh attempt fails returns normally.
C1_SoftFailWheneverCalledNearExpiry ==
    \A s \in Services :
        (call[s].op = "fetch" /\ CalledNearExpiry(call[s]) /\ RefreshFailed(call[s]))
            => call[s].ev = "ok"

\* C1 amended: an ensureValid call made with now < expiresAt < now + 5 min whose
\* refresh attempt fails returns normally, and the history request is issued,
\* provided the clock has not passed expiresAt when the failure is handled.
C1_SoftFailUnlessExpiredMeanwhile ==
    [][\A s \in Services :
        (FailedRefreshHandled(s) /\ CalledNearExpiry(call'[s])
            /\ now' <= call'[s].pre.tokenExpiresAt)
            => (call'[s].ev = "ok" /\ pc'[s] = "history" /\ call'[s].historyReqs = 1)]_vars

\* a fetch called near expiry whose refresh request was answered with a failure
\* after the clock had advanced, and which went on to the history request
C1_Witness ==
    \E s \in Services :
        /\ call[s].op = "fetch" /\ CalledNearExpiry(call[s])
        /\ call[s].refreshResult = "ExchangeFailed" /\ call[s].refreshReqs = 1
        /\ now > call[s].nowAtCall
        /\ call[s].ev = "ok" /\ call[s].historyReqs = 1

\* C2: an ensureValid call made with expiresAt < now whose refresh attempt fails
\* ends with AuthenticationExpired, not normally and not with the refresh error.
C2_ExpiredAndRefreshFailed ==
    \A s \in Services :
        (call[s].op = "fetch" /\ CalledExpired(call[s]) /\ RefreshFailed(call[s]))
            => /\ call[s].ev = "AuthenticationExpired"
               /\ call[s].result = "AuthenticationExpired"
               /\ call[s].historyReqs = 0
               /\ pc[s] = "idle"

C2_Witness ==
    \E s \in Services :
        /\ call[s].op = "fetch" /\ CalledExpired(call[s])
        /\ call[s].refreshResult \in {"ExchangeFailed", "NetworkError", "MalformedResponse"}
        /\ call[s].result = "AuthenticationExpired"

\* C3: ensureValid attempts a refresh only if an expiry is recorded and
\* expiresAt - now < 5 minutes; with expiresAt - now >= 5 minutes it returns
\* normally, issues no refresh request and leaves the credentials unchanged.
C3_RefreshOnlyInsideWindow ==
    \A s \in Services :
        call[s].op = "fetch" =>
            /\ (call[s].refreshResult # "none" \/ call[s].refreshReqs > 0)
                   => /\ ExpiryRecorded(call[s])
                      /\ call[s].pre.tokenExpiresAt - call[s].nowAtCall < 5 * 60 * 1000
            /\ (ExpiryRecorded(call[s])
                    /\ call[s].pre.tokenExpiresAt - call[s].nowAtCall >= 5 * 60 * 1000)
                   => /\ call[s].ev = "ok"
                      /\ call[s].refreshReqs = 0
                      /\ call[s].refreshResult = "none"
                      /\ api[s] = call[s].pre

\* a fetch called with exactly five minutes left
C3_Witness ==
    \E s \in Services :
        /\ call[s].op = "fetch" /\ ExpiryRecorded(call[s])
        /\ call[s].pre.tokenExpiresAt - call[s].nowAtCall = 5 * 60 * 1000
        /\ call[s].ev = "ok"

\* C4: with no access token stored, ensureValid (and so fetch) fails with
\* NotAuthenticated and issues neither a refresh nor a history request.
C4_NotAuthenticated ==
    \A s \in Services :
        (call[s].op = "fetch" /\ call[s].pre.accessToken \in {NoToken, ""})
            => /\ call[s].ev = "NotAuthenticated"
               /\ call[s].result = "NotAuthenticated"
               /\ call[s].refreshReqs = 0
               /\ call[s].refreshResult = "none"
               /\ call[s].historyReqs = 0
               /\ pc[s] = "idle"

C4_Witness ==
    \E s \in Services :
        /\ call[s].op = "fetch" /\ call[s].pre.accessToken = NoToken
        /\ call[s].result = "NotAuthenticated"

\* C5: with an access token stored and no expiry recorded, ensureValid returns
\* normally without attempting a refresh, whatever the clock reads.
C5_NoExpiryNoRefresh ==
    \A s \in Services :
        (call[s].op = "fetch" /\ call[s].pre.accessToken \notin {NoToken, ""}
            /\ call[s].pre.tokenExpiresAt = Null)
            => /\ call[s].ev = "ok"
               /\ call[s].refreshReqs = 0
               /\ call[s].refreshResult = "none"
               /\ call[s].historyReqs = 1

C5_Witness ==
    \E s \in Services :
        /\ call[s].op = "fetch" /\ call[s].pre.accessToken \notin {NoToken, ""}
        /\ call[s].pre.tokenExpiresAt = Null
        /\ call[s].nowAtCall > Now0
        /\ call[s].ev = "ok"

\* this step completes a successful exchangeCodeForToken or refreshAccessToken
TokenCallSucceeded(s) ==
    /\ pc[s] \in {"exchange", "refresh"}
    /\ pc'[s] # pc[s]
    /\ IF call'[s].op = "exchange" THEN call'[s].result = "ok"
       ELSE call'[s].refreshResult = "ok"

\* C6 as stated: every successful exchange or refresh stores the response's
\* access token, stores its refresh token if it has one and else keeps the
\* previous one, and recomputes the expiry from the response's expires_in.
C6_ExpiryAlwaysRecomputed ==
    [][\A s \in Services :
        TokenCallSucceeded(s) =>
            LET body == call'[s].reply.body IN
            /\ api'[s].accessToken = body.access_token
            /\ api'[s].refreshToken =
                   (IF body.refresh_token \in {NoToken, ""} THEN api[s].refreshToken
                    ELSE body.refresh_token)
            /\ \/ body.expires_in = Null /\ api'[s].tokenExpiresAt = Null
               \/ body.expires_in # Null
                    /\ api'[s].tokenExpiresAt = now' + body.expires_in * 1000
               \/ body.expires_in # Null /\ s = "trakt" /\ body.created_at # Null
                    /\ api'[s].tokenExpiresAt = (body.created_at + body.expires_in) * 1000
               \/ body.expires_in = Null /\ s = "trakt" /\ body.created_at # Null
                    /\ api'[s].tokenExpiresAt = NaN]_vars

\* C6 amended: every successful exchange or refresh stores the response's access
\* token, stores its refresh token if it has one and else keeps the previous
\* one; the expiry becomes now + expires_in seconds only if the response has a
\* non-zero expires_in and is otherwise kept as it was; for Trakt a response
\* with created_at sets it to created_at + expires_in seconds instead (NaN when
\* expires_in is absent).
C6_WriteThrough ==
    [][\A s \in Services :
        TokenCallSucceeded(s) =>
            LET body == call'[s].reply.body
                hasExpiresIn == body.expires_in \notin {Null, 0}
                hasCreatedAt == s = "trakt" /\ body.created_at \notin {Null, 0} IN
            /\ api'[s].accessToken = body.access_token
            /\ api'[s].refreshToken =
                   (IF body.refresh_token \in {NoToken, ""} THEN api[s].refreshToken
                    ELSE body.refresh_token)
            /\ (hasCreatedAt /\ body.expires_in = Null) => api'[s].tokenExpiresAt = NaN
            /\ (hasCreatedAt /\ body.expires_in # Null)
                   => api'[s].tokenExpiresAt = (body.created_at + body.expires_in) * 1000
            /\ (~hasCreatedAt /\ hasExpiresIn)
                   => api'[s].tokenExpiresAt = now' + body.expires_in * 1000
            /\ (~hasCreatedAt /\ ~hasExpiresIn)
                   => api'[s].tokenExpiresAt = api[s].tokenExpiresAt]_vars

\* a refresh whose response has a new access token, no refresh token and an
\* expires_in: the refresh token of before the call is still stored
C6_Witness ==
    \E s \in Services :
        /\ call[s].op = "refresh" /\ call[s].result = "ok"
        /\ call[s].reply.body.refresh_token = NoToken
        /\ call[s].reply.body.expires_in = 300
        /\ call[s].pre.refreshToken = "r1" /\ api[s].refreshToken = "r1"
        /\ call[s].pre.accessToken = "a1" /\ api[s].accessToken = "a2"
        /\ api[s].tokenExpiresAt # call[s].pre.tokenExpiresAt

\* C11 as stated: a successful Trakt exchange or refresh whose response has an
\* expires_in stores (created_at + expires_in) seconds as the absolute expiry
\* when the response carries created_at, and now + expires_in seconds when it
\* does not.
C11_CreatedAtElseNow ==
    [][(TokenCallSucceeded("trakt") /\ call'["trakt"].reply.body.expires_in # Null) =>
            LET body == call'["trakt"].reply.body IN
            IF body.created_at # Null
            THEN api'["trakt"].tokenExpiresAt = (body.created_at + body.expires_in) * 1000
            ELSE api'["trakt"].tokenExpiresAt = now' + body.expires_in * 1000]_vars

\* C11 amended: a successful Trakt exchange or refresh whose response has an
\* expires_in stores (created_at + expires_in) seconds as the absolute expiry
\* when the response carries created_at, whatever the clock reads; when
\* created_at is absent it stores now + expires_in seconds if expires_in is not
\* zero and keeps the expiry it had if expires_in is zero.
C11_CreatedAtTakesPrecedence ==
    [][(TokenCallSucceeded("trakt") /\ call'["trakt"].reply.body.expires_in # Null) =>
            LET body == call'["trakt"].reply.body IN
            IF body.created_at \notin {Null, 0}
            THEN api'["trakt"].tokenExpiresAt = (body.created_at + body.expires_in) * 1000
            ELSE IF body.expires_in # 0
            THEN api'["trakt"].tokenExpiresAt = now' + body.expires_in * 1000
            ELSE api'["trakt"].tokenExpiresAt = api["trakt"].tokenExpiresAt]_vars

\* a Trakt token call answered with created_at 999 and expires_in 300 at a
\* clock that is not 999 s: the expiry is 1299 s and not now + 300 s
C11_Witness ==
    /\ call["trakt"].op \in {"exchange", "refresh"}
    /\ call["trakt"].result = "ok"
    /\ call["trakt"].reply.body.created_at = 999
    /\ call["trakt"].reply.body.expires_in = 300
    /\ api["trakt"].tokenExpiresAt = 1299000
    /\ api["trakt"].tokenExpiresAt # now + 300 * 1000

\* C7: setTokens(access, refresh, 3600) then getTokens() yields that access
\* token, that refresh token and expiresAt = time of the call + 3600 s; a
\* following setTokens(access2, null, null) replaces the access token and keeps
\* the refresh token.
C7_SetThenRead ==
    \A s \in Services :
        (call[s].op = "setTokens" /\ call[s].result = "ok") =>
            LET access == call[s].args[1]
                refresh == call[s].args[2]
                expiresIn == call[s].args[3] IN
            /\ (expiresIn = 3600 /\ refresh \notin {NoToken, ""})
                   => GetTokensOf(api[s]) = [accessToken |-> access, refreshToken |-> refresh,
                                             expiresAt |-> call[s].nowAtCall + 3600 * 1000]
            /\ (refresh = NoToken /\ expiresIn = Null)
                   => /\ GetTokensOf(api[s]).accessToken = access
                      /\ GetTokensOf(api[s]).refreshToken = call[s].pre.refreshToken

\* setTokens("a2", null, null) on a store that setTokens("a1", "r1", 3600) filled
C7_Witness ==
    \E s \in Services :
        /\ call[s].op = "setTokens" /\ call[s].result = "ok"
        /\ call[s].args = <<"a2", NoToken, Null>>
        /\ call[s].pre.accessToken = "a1" /\ call[s].pre.refreshToken = "r1"
        /\ call[s].pre.tokenExpiresAt >= Now0 + 3600 * 1000
        /\ GetTokensOf(api[s]).accessToken = "a2"
        /\ GetTokensOf(api[s]).refreshToken = "r1"

\* C8 as stated: after setTokens with expiresIn <= 0 no expiry is recorded and
\* ensureValid attempts no refresh, whatever the store held before.
C8_NoExpiryAfterNonPositive ==
    \A s \in Services :
        (call[s].op = "setTokens" /\ call[s].result = "ok"
            /\ call[s].args[3] # Null /\ call[s].args[3] <= 0)
            => /\ GetTokensOf(api[s]).expiresAt = Null
               /\ ~NeedsRefresh(api[s], now)

\* C8 amended: setTokens with expiresIn <= 0 leaves the expiry as it was before
\* the call; if the store recorded none before (as a newly constructed instance
\* does) none is recorded after, and ensureValid attempts no refresh.
C8_NonPositiveLeavesExpiry ==
    \A s \in Services :
        (call[s].op = "setTokens" /\ call[s].result = "ok"
            /\ call[s].args[3] # Null /\ call[s].args[3] <= 0)
            => /\ GetTokensOf(api[s]).expiresAt = call[s].pre.tokenExpiresAt
               /\ call[s].pre.tokenExpiresAt = Null
                      => /\ GetTokensOf(api[s]).expiresAt = Null
                         /\ ~NeedsRefresh(api[s], now)

\* setTokens with a negative expiresIn on a store without expiry
C8_Witness ==
    \E s \in Services :
        /\ call[s].op = "setTokens" /\ call[s].result = "ok"
        /\ call[s].args[3] < 0 /\ call[s].args[3] # Null
        /\ call[s].pre.tokenExpiresAt = Null
        /\ GetTokensOf(api[s]).expiresAt = Null

\* C9: refreshAccessToken with no stored refresh token fails with NoRefreshToken
\* and issues no HTTP request, called directly or from ensureValid.
C9_NoRefreshToken ==
    \A s \in Services :
        /\ (call[s].op = "refresh" /\ call[s].pre.refreshToken \in {NoToken, ""})
               => /\ call[s].result = "NoRefreshToken"
                  /\ call[s].refreshReqs = 0
                  /\ pc[s] = "idle"
        /\ (call[s].op = "fetch" /\ call[s].pre.refreshToken \in {NoToken, ""})
               => /\ call[s].refreshResult \in {"none", "NoRefreshToken"}
                  /\ call[s].refreshReqs = 0

\* a direct refresh on an authenticated store that has no refresh token
C9_Witness ==
    \E s \in Services :
        /\ call[s].op = "refresh"
        /\ call[s].pre.accessToken # NoToken /\ call[s].pre.refreshToken = NoToken
        /\ call[s].result = "NoRefreshToken"

\* C10: for both services exchangeCode and refresh fail with ExchangeFailed
\* whenever the response status is not 200 and with MalformedResponse whenever a
\* 200 response has no access token.
C10_FailsUnlessOk200 ==
    \A s \in Services :
        (call[s].op \in {"exchange", "refresh"} /\ call[s].reply.status \notin {Null, 0}) =>
            /\ call[s].reply.status # 200 => call[s].result = "ExchangeFailed"
            /\ (call[s].reply.status = 200 /\ call[s].reply.body.access_token \in {NoToken, ""})
                   => call[s].result = "MalformedResponse"

\* C12: a fetch issues its history request only after its ensureValid step has
\* returned normally, and a fetch whose ensureValid step failed issues none.
C12_EnsureValidFirst ==
    \A s \in Services :
        call[s].op = "fetch" =>
            /\ call[s].historyReqs > 0 => call[s].ev = "ok"
            /\ pc[s] = "history" => (call[s].ev = "ok" /\ call[s].historyReqs > 0)
            /\ call[s].ev \in {"NotAuthenticated", "AuthenticationExpired"}
                  => (call[s].historyReqs = 0 /\ pc[s] = "idle" /\ call[s].result = call[s].ev)

\* a fetch whose refresh attempt was answered with a failure after the token
\* had expired: ensureValid failed and no history request went out
C12_Witness ==
    \E s \in Services :
        /\ call[s].op = "fetch"
        /\ call[s].refreshReqs = 1
        /\ call[s].ev = "AuthenticationExpired"
        /\ call[s].historyReqs = 0

\* C13: nothing is retried: one fetch issues at most one refresh request and at
\* most one history request, whatever the replies are.
C13_NoRetry ==
    \A s \in Services :
        call[s].op = "fetch" => (call[s].refreshReqs <= 1 /\ call[s].historyReqs <= 1)

\* a fetch whose refresh attempt failed softly and whose history request
\* failed as well has returned after exactly one request of each kind
C13_Witness ==
    \E s \in Services :
        /\ call[s].op = "fetch" /\ pc[s] = "idle"
        /\ call[s].refreshResult \notin {"none", "ok", "NoRefreshToken"}
        /\ call[s].result \in {"NetworkError", "UpstreamError"}
        /\ call[s].refreshReqs = 1 /\ call[s].historyReqs = 1

\* ---- claims about the normalizers, checked under NormSpec
\* the items the normalizer returned
Items == norm.out.items

\* references to the entries of the normalized response
EntryRefs ==
    {[bucket |-> "items", index |-> i] : i \in 1..Len(norm.data.items)}
    \cup {[bucket |-> "movies", index |-> i] : i \in 1..Len(norm.data.movies)}
    \cup {[bucket |-> "shows", index |-> i] : i \in 1..Len(norm.data.shows)}

EntryAt(ref) ==
    CASE ref.bucket = "items" -> norm.data.items[ref.index]
      [] ref.bucket = "movies" -> norm.data.movies[ref.index]
      [] ref.bucket = "shows" -> norm.data.shows[ref.index]

\* an item built from the entry is among the returned items
EmittedFrom(ref) == \E k \in 1..Len(Items) : Items[k].src = ref

\* the watched timestamp of an entry, in ms, or NaN
TimestampOf(e) ==
    DateParse(IF e.watched_at \notin {NoToken, ""} THEN e.watched_at ELSE e.last_watched_at)

LacksTimestamp(e) == e.watched_at = NoToken /\ e.last_watched_at = NoToken

\* the date range of the fetch is a valid one (Trakt and the array variant of
\* Simkl do not look at it)
RangeOk ==
    norm.variant = "simklBucket" =>
        /\ DateParse(norm.startDate) # NaN /\ DateParse(norm.endDate) # NaN
        /\ DateParse(norm.startDate) <= DateParse(norm.endDate)

\* the entry's timestamp lies in the date range of the fetch
InsideRange(e) ==
    norm.variant = "simklBucket" =>
        /\ DateParse(norm.startDate) <= TimestampOf(e)
        /\ TimestampOf(e) <= DateParse(norm.endDate)

\* a movie entry with a titled movie object, or a show entry with a titled
\* show object and an episode object, with a timestamp that parses
WellFormed(e) ==
    /\ TimestampOf(e) # NaN
    /\ \/ e.movie.present /\ e.movie.title \notin {NoToken, ""} /\ e.type \in {"movie", NoToken}
       \/ /\ e.show.present /\ e.show.title \notin {NoToken, ""} /\ e.episode.present
          /\ e.type \in {"episode", NoToken}

\* the response has the shape the service documents
ExpectedShape ==
    norm.data.shape = (IF norm.variant = "simklBucket" THEN "object" ELSE "array")

\* C14: for both services an entry without a watched timestamp is dropped
\* without aborting the batch: the fetch returns normally, with an item for
\* every well-formed entry (inside the date range) and none for that entry.
C14_MissingTimestampDropped ==
    (/\ norm.variant # "none" /\ RangeOk /\ ExpectedShape
     /\ \A ref \in EntryRefs : LacksTimestamp(EntryAt(ref)) \/ WellFormed(EntryAt(ref)))
        => /\ norm.out.result = "ok"
           /\ \A ref \in EntryRefs :
                 /\ LacksTimestamp(EntryAt(ref)) => ~EmittedFrom(ref)
                 /\ (WellFormed(EntryAt(ref)) /\ InsideRange(EntryAt(ref))) => EmittedFrom(ref)

\* a movie entry whose movie object has no title
UntitledMovie(e) ==
    /\ TimestampOf(e) # NaN
    /\ e.movie.present /\ e.movie.title = NoToken /\ e.type \in {"movie", NoToken}

\* C15: for both services a movie entry whose movie data has no title is never
\* emitted, and its well-formed siblings are still returned.
C15_UntitledMovieNeverEmitted ==
    /\ \A k \in 1..Len(Items) :
          Items[k].type = "movie" => Items[k].movie.title \notin {NoToken, ""}
    /\ (/\ norm.variant # "none" /\ RangeOk /\ ExpectedShape
        /\ \A ref \in EntryRefs : UntitledMovie(EntryAt(ref)) \/ WellFormed(EntryAt(ref)))
          => /\ norm.out.result = "ok"
             /\ \A ref \in EntryRefs :
                   /\ UntitledMovie(EntryAt(ref)) => ~EmittedFrom(ref)
                   /\ (WellFormed(EntryAt(ref)) /\ InsideRange(EntryAt(ref))) => EmittedFrom(ref)

\* C16: every returned item of type 'show' has both its show and its episode:
\* an entry that lacks either is never emitted with the part left out.
C16_EpisodeHasShowAndEpisode ==
    \A k \in 1..Len(Items) :
        Items[k].type = "show" => (Items[k].show.present /\ Items[k].episode.present)

\* the movie data of a movies-bucket entry has a title
TitledMovie(e) ==
    IF e.movie.present THEN e.movie.title \notin {NoToken, ""} ELSE e.title \notin {NoToken, ""}

\* C17: the all-items fetch returns an item only if its watched timestamp t
\* satisfies startDate <= t <= endDate in milliseconds, both ends included,
\* and it returns every titled movie whose timestamp does.
C17_OnlyInsideRange ==
    (norm.variant = "simklBucket" /\ norm.out.result = "ok") =>
        LET startTimestamp == DateParse(norm.startDate)
            endTimestamp == DateParse(norm.endDate) IN
        /\ \A k \in 1..Len(Items) :
              /\ startTimestamp <= DateParse(Items[k].watched_at)
              /\ DateParse(Items[k].watched_at) <= endTimestamp
        /\ \A i \in 1..Len(norm.data.movies) :
              LET e == norm.data.movies[i] IN
              (/\ TitledMovie(e) /\ TimestampOf(e) # NaN
               /\ startTimestamp <= TimestampOf(e) /\ TimestampOf(e) <= endTimestamp)
                  => EmittedFrom([bucket |-> "movies", index |-> i])

\* a range of a single instant, a movie watched at that instant and a movie
\* watched a day later: exactly the first movie is returned
C17_Witness ==
    /\ norm.variant = "simklBucket"
    /\ DateParse(norm.startDate) = DateParse(norm.endDate)
    /\ Len(norm.data.movies) = 2 /\ Len(norm.data.shows) = 0
    /\ TimestampOf(norm.data.movies[1]) = DateParse(norm.endDate)
    /\ TimestampOf(norm.data.movies[2]) > DateParse(norm.endDate)
    /\ TitledMovie(norm.data.movies[2])
    /\ Len(Items) = 1
    /\ Items[1].movie.title = "Heat"

\* C18: in the all-items fetch a show entry without an episode object is
\* emitted only if its summary matches S<season>E<episode>, and the emitted
\* episode carries the season and episode numbers of the summary.
C18_SummaryFallback ==
    norm.variant = "simklBucket" =>
        \A k \in 1..Len(Items) :
            (Items[k].src.bucket = "shows" /\ ~EntryAt(Items[k].src).episode.present) =>
                LET summary == EntryAt(Items[k].src).last_watched IN
                \/ /\ summary = <<"S", "0", "1", "E", "0", "2">>
                   /\ Items[k].episode.present
                   /\ Items[k].episode.season = 1 /\ Items[k].episode.episode = 2
                \/ /\ summary = <<"x", "S", "1", "0", "E", "3">>
                   /\ Items[k].episode.present
                   /\ Items[k].episode.season = 10 /\ Items[k].episode.episode = 3

\* a show entry with the summary "xS10E3" and no episode object was emitted as
\* season 10, episode 3, next to one without a summary that was not
C18_Witness ==
    /\ norm.variant = "simklBucket"
    /\ Len(norm.data.shows) = 2 /\ Len(Items) = 1
    /\ \A i \in 1..2 : ~norm.data.shows[i].episode.present
    /\ \A i \in 1..2 : InsideRange(norm.data.shows[i])
    /\ norm.data.shows[1].last_watched = <<>>
    /\ norm.data.shows[2].last_watched = <<"x", "S", "1", "0", "E", "3">>
    /\ Items[1].src = [bucket |-> "shows", index |-> 2]
    /\ Items[1].episode.season = 10 /\ Items[1].episode.episode = 3

\* the runtime in minutes the claim gives an item built from entry e: the
\* episode runtime if known, else the show or movie runtime, else 0
ClaimedRuntime(type, e) ==
    LET own == IF type = "movie" THEN e.movie ELSE e.show
        media == IF own.present THEN own.runtime ELSE e.runtime IN
    IF type = "show" /\ e.episode.present /\ e.episode.runtime \notin {Null, 0}
    THEN e.episode.runtime
    ELSE IF media \notin {Null, 0} THEN media
    ELSE 0

\* C19: every emitted item has startedAt = watchedAt - runtime minutes, where
\* runtime is the episode runtime if known, else the show or movie runtime,
\* else 0.
C19_StartedAtFromRuntime ==
    \A k \in 1..Len(Items) :
        Items[k].started_at =
            DateParse(Items[k].watched_at)
                - ClaimedRuntime(Items[k].type, EntryAt(Items[k].src)) * 60 * 1000

\* a 120-minute movie and an episode of 45 minutes of a 30-minute show were
\* emitted: the movie started two hours and the episode 45 minutes earlier
C19_Witness ==
    /\ Len(Items) = 2
    /\ Items[1].type = "movie" /\ Items[1].movie.runtime = 120
    /\ Items[1].started_at = DateParse(Items[1].watched_at) - 7200000
    /\ Items[2].type = "show" /\ Items[2].episode.runtime = 45 /\ Items[2].show.runtime = 30
    /\ Items[2].started_at = DateParse(Items[2].watched_at) - 2700000

\* C20: the returned items are in the order of the entries they were built
\* from in the upstream array; entries that are dropped leave the order of
\* the others as it was, and no entry yields two items.
C20_OrderPreserved ==
    \A i, j \in 1..Len(Items) :
        (i < j /\ Items[i].src.bucket = Items[j].src.bucket)
            => Items[i].src.index < Items[j].src.index

\* of three movies the second was dropped: the first and the third are
\* returned in that order
C20_Witness ==
    /\ Len(norm.data.movies) = 3
    /\ Len(Items) = 2
    /\ Items[1].src = [bucket |-> "movies", index |-> 1]
    /\ Items[2].src = [bucket |-> "movies", index |-> 3]
    /\ Items[1].started_at > Items[2].started_at

\* C21: a fetch fails with MalformedPayload exactly when the top-level
\* response is not of the shape of the service (an array for the flat
\* history, an object with movies and shows for the all-items history):
\* such a response never yields an item list, and no response of the right
\* shape is refused as malformed.
C21_MalformedIffShape ==
    (norm.variant # "none" /\ RangeOk)
        => (norm.out.result = "MalformedPayload" <=> ~ExpectedShape)

\* C30: the all-items fetch of Simkl with a date that does not parse, or with
\* a start date later than the end date, fails with an error and issues no
\* history request; a start date equal to the end date is accepted: the
\* request is issued and the fetch does not fail on the dates.
C30_DatesValidatedBeforeRequest ==
    norm.variant = "simklBucket" =>
        LET start == DateParse(norm.startDate)
            end == DateParse(norm.endDate) IN
        /\ (start = NaN \/ end = NaN \/ start > end)
                => /\ norm.out.result \in {"InvalidDate", "InvalidRange"}
                   /\ norm.requests = 0
        /\ (start # NaN /\ start = end)
                => /\ norm.out.result \notin {"InvalidDate", "InvalidRange"}
                   /\ norm.requests = 1

\* the range of one instant was accepted and the movie watched at that
\* instant returned
C30_Witness ==
    /\ norm.variant = "simklBucket"
    /\ DateParse(norm.startDate) # NaN
    /\ DateParse(norm.startDate) = DateParse(norm.endDate)
    /\ norm.requests = 1 /\ norm.out.result = "ok" /\ Len(Items) = 1

\* C25: a code exchange or a refresh that fails (no response, a refused
\* status, a response without access token, no refresh token to send) and a
\* setTokens refused for an empty access token leave the access token, the
\* refresh token and the expiry as they were before the call; so does a
\* refresh that fails inside a fetch.
C25_FailureLeavesCredentials ==
    \A s \in Services :
        /\ (/\ pc[s] = "idle"
            /\ call[s].op \in {"exchange", "refresh", "setTokens"}
            /\ call[s].result \notin {"ok", "none"})
                => api[s] = call[s].pre
        /\ (call[s].op = "fetch" /\ RefreshFailed(call[s]))
                => api[s] = call[s].pre

\* an instance holding credentials was answered 200 without access token but
\* with a refresh token, and kept its fields
C25_Witness ==
    \E s \in Services :
        /\ pc[s] = "idle"
        /\ call[s].op \in {"exchange", "refresh"}
        /\ call[s].result = "MalformedResponse"
        /\ call[s].reply.body.refresh_token = "r2"
        /\ call[s].reply.body.expires_in = 300
        /\ Truthy(call[s].pre.accessToken)
        /\ api[s] = call[s].pre

\* C29: whenever ensureValidToken returns normally (the fetch goes on to its
\* history request) and an expiry is recorded at that moment, the recorded
\* expiry is not in the past: tokenExpiresAt >= now, also when the token has
\* just been refreshed and whatever the refresh response carried.
C29_ExpiryNotPastAfterEnsureValid ==
    [][\A s \in Services :
          (/\ pc[s] # "history" /\ pc'[s] = "history"
           /\ call'[s].ev = "ok"
           /\ api'[s].tokenExpiresAt \notin {Null, NaN})
              => api'[s].tokenExpiresAt >= now']_vars

\* ---- claims about the plugin, checked under PluginSpec and FlowSpec
\* the three credential fields of one service's settings
SettingsCredentials(ss) ==
    [accessToken |-> ss.accessToken, refreshToken |-> ss.refreshToken,
     tokenExpiresAt |-> ss.tokenExpiresAt]

\* the settings of the service hold no credentials
Cleared(ss) ==
    ~Truthy(ss.accessToken) /\ ~Truthy(ss.refreshToken) /\ ss.tokenExpiresAt = Null

\* this step is a handler run for service s that changed something
HandlerFor(s) ==
    plugin'.last.service = s /\ <<plugin, api>>' # <<plugin, api>>

\* C22: a handler run for one service (authenticate, code exchange, refresh
\* or fetch, re-authenticate, an edit of its settings) leaves the other
\* service's credentials as they were: those of its API instance, those of
\* the settings blob and those of the persisted blob.
C22_NoCrossServiceInterference ==
    [][\A s \in Services : \A o \in Services \ {s} :
          HandlerFor(s)
              => /\ api'[o] = api[o]
                 /\ SettingsCredentials(plugin'.settings[o]) = SettingsCredentials(plugin.settings[o])
                 /\ SettingsCredentials(plugin'.saved[o]) = SettingsCredentials(plugin.saved[o])]_vars

\* C23: after a Re-authenticate request for a service, and until a code
\* exchange for it succeeds, the service's credential fields are cleared in
\* the settings, in the persisted settings and in the API instance, and a
\* fetch for the service fails with NotAuthenticated.
C23_ReauthClearsEverywhere ==
    \A s \in Services :
        plugin.reauth[s]
            => /\ Cleared(plugin.settings[s]) /\ Cleared(plugin.saved[s])
               /\ api[s] = NoTokens
               /\ (plugin.last.op = "fetch" /\ plugin.last.service = s)
                      => plugin.last.result = "NotAuthenticated"

\* C23 as the code has it: the settings and the persisted settings are
\* cleared; the API instance is cleared whenever the service is enabled and
\* has its client credentials (saveSettings replaces the instance only then);
\* and a fetch for the service fails, with NotAuthenticated while the service
\* is enabled and has its client credentials and with the error of
\* getActiveAPI otherwise.
C23_ReauthClearsConfigured ==
    \A s \in Services :
        plugin.reauth[s]
            => /\ Cleared(plugin.settings[s]) /\ Cleared(plugin.saved[s])
               /\ Configured(plugin.settings[s]) => api[s] = NoTokens
               /\ (plugin.last.op = "fetch" /\ plugin.last.service = s)
                      => IF Configured(plugin.settings[s])
                         THEN plugin.last.result = "NotAuthenticated"
                         ELSE plugin.last.result \in {"NotEnabled", "NotConfigured"}

\* a service was re-authenticated while enabled with its client credentials,
\* and the fetch
\* that followed failed with NotAuthenticated
C23_Witness ==
    \E s \in Services :
        /\ plugin.reauth[s]
        /\ Configured(plugin.settings[s])
        /\ plugin.last.op = "fetch" /\ plugin.last.service = s
        /\ plugin.last.result = "NotAuthenticated"
        /\ Cleared(plugin.saved[s]) /\ api[s] = NoTokens

\* C26: an API instance built from the settings at load or save time records
\* the persisted expiry: whenever the settings of a configured service hold an
\* access token and a tokenExpiresAt, future or past, the instance holds an
\* expiry that differs from it by less than a second.
C26_ExpiryRestored ==
    (\/ plugin.last.op \in {"none", "toggleEnabled", "editClientId", "setPrimaryService",
                            "reauthenticate"}
     \/ plugin.last.op = "exchange" /\ plugin.last.result = "ok")
        => \A s \in Services :
              (/\ Configured(plugin.settings[s])
               /\ Truthy(plugin.settings[s].accessToken)
               /\ plugin.settings[s].tokenExpiresAt # Null)
                  => /\ api[s].tokenExpiresAt # Null
                     /\ api[s].tokenExpiresAt <= plugin.settings[s].tokenExpiresAt
                     /\ api[s].tokenExpiresAt > plugin.settings[s].tokenExpiresAt - MsPerSec

\* C27: after a fetch in which the access token was refreshed, the persisted
\* credentials of the service are those of its API instance.
C27_RefreshPersisted ==
    (plugin.last.op = "fetch" /\ plugin.last.refreshed)
        => LET s == plugin.last.service IN
           /\ plugin.saved[s].accessToken = api[s].accessToken
           /\ plugin.saved[s].refreshToken = api[s].refreshToken
           /\ plugin.settings[s].accessToken = api[s].accessToken

\* C28: a code is sent to the token endpoint at most once; a flow whose
\* handleAuthCode has run (after a modal submission or after the event) has
\* no listener registered any more; and no two flows send the same code.
C28_CodeExchangedOnce ==
    /\ \A c \in Codes : plugin.exchanged[c] <= 1
    /\ \A f \in 1..Len(plugin.flows) :
          (plugin.flows[f].done /\ plugin.flows[f].pending = {}) => ~plugin.flows[f].listening
    /\ \A f, g \in 1..Len(plugin.flows) :
          f # g => plugin.flows[f].sent \cap plugin.flows[g].sent = {}

\* ---- claim about the loopback listener, checked under LoopbackSpec
\* the handler of the click has got the result of its wait and has gone
\* past its call of stop()
PastStop(click) ==
    click.resolvedBy # 0 /\ click.pc \in {"exchanging", "done", "failed"}

\* C24: the listener is used as start, await one result, stop: no handler
\* starts or waits on a listener while the wait of another is unresolved,
\* every wait is resolved at most once, and the listener that delivered a
\* result is stopped once the handler has gone on after it.
C24_StartWaitStop ==
    /\ \A c, d \in 1..Len(oauth.clicks) :
          (c # d /\ oauth.clicks[c].pc = "waiting")
              => oauth.clicks[d].pc \notin {"starting", "waiting"}
    /\ \A c \in 1..Len(oauth.clicks) : oauth.clicks[c].resolutions <= 1
    /\ \A c \in 1..Len(oauth.clicks) :
          PastStop(oauth.clicks[c]) => ~oauth.servers[oauth.clicks[c].resolvedBy].listening

====
